---- MODULE Spec2Model ----
(***************************************************************************)
(* ArieoEngine package manager.                                            *)
(*                                                                         *)
(* init_packages.py    : reads the manifest and every package's            *)
(*                       arieo_package.json, checks dependency tag         *)
(*                       conflicts, sorts topologically (Kahn) and writes  *)
(*                       the resolve file.                                 *)
(* process_packages.py : reads the resolve file, filters it, and runs the  *)
(*                       build / install commands of every package for     *)
(*                       every environment combination.                    *)
(***************************************************************************)
EXTENDS Integers, Sequences, FiniteSets, TLC

(***************************************************************************)
(* Bounds of the model.                                                    *)
(***************************************************************************)
\* dependency references of one package's arieo_package.json
MaxDeps == 2
\* dependency references of a whole manifest
MaxRefs == 3

\* Repository names, in the order the manifest declares them.  A manifest of
\* the model is a nonempty prefix of RepoOrder, so a reference to a repository
\* beyond the prefix is a reference to an unknown (external) package.
RepoOrder == <<"A", "B", "C">>
Repos == {RepoOrder[i] : i \in 1..Len(RepoOrder)}
Tags == {"t1", "t2"}

(***************************************************************************)
(* Generic helpers.                                                        *)
(***************************************************************************)
Range(s) == {s[i] : i \in 1..Len(s)}

Min(a, b) == IF a < b THEN a ELSE b

Max(S) == CHOOSE x \in S : \A y \in S : y <= x

SeqsUpTo(S, n) == UNION {[1..k -> S] : k \in 0..n}

PositionIn(seq, x) == CHOOSE i \in 1..Len(seq) : seq[i] = x

RECURSIVE Repeat(_, _)
Repeat(x, n) == IF n = 0 THEN <<>> ELSE <<x>> \o Repeat(x, n - 1)

RECURSIVE Flatten(_)
Flatten(ss) == IF ss = <<>> THEN <<>> ELSE Head(ss) \o Flatten(Tail(ss))

(***************************************************************************)
(* State.                                                                  *)
(***************************************************************************)
VARIABLES
    packages_data,  \* init_all_packages: the dict repo_name -> package info, in insertion order
    init_pc,        \* position of init_packages.py
    in_degree,      \* topological_sort: in_degree
    graph,          \* topological_sort: graph
    queue,          \* topological_sort: queue
    result,         \* topological_sort: result
    resolve_file,   \* the resolve file on disk (NoFile while it does not exist)
    init_error,     \* what init_packages.py printed before sys.exit(1)
    init_exit,      \* exit code of init_packages.py ("running" until it exits)
    \* ---- process_packages.py: inputs
    arieo_package_json, \* the arieo_package.json files on disk, by source folder
    os_environ,         \* the inherited process environment
    package_filter,     \* --package (the empty set when none is given)
    extra_env_vars,     \* --env{NAME}=..., as parse_env_args returns them
    stage,              \* --stage
    include_dependencies, \* --include-dependencies
    manifest,           \* package.manifest.yaml and the arieo_package.json of its repositories
    \* ---- process_packages.py: run state
    proc_pc,            \* position of process_packages.py
    prepare_data,       \* what prepare_process_packages returned
    combo_idx,          \* process_packages: combo_idx
    install_order,      \* process_packages_from_resolve: install_order
    pkg_idx,            \* process_packages_from_resolve: idx
    public_env_vars_map,\* process_packages_from_resolve: public_env_vars_map
    env,                \* the env dict handed to build_package / install_package
    package_data,       \* load_package_data: package_data
    cmd_idx,            \* build_package / install_package: idx
    cwd,                \* the working directory of the process
    original_cwd,       \* build_package / install_package: original_cwd
    executed,           \* every subprocess.run so far, in order
    proc_error,         \* what process_packages.py printed before sys.exit(1)
    proc_exit,          \* exit code of process_packages.py ("running" until it exits)
    \* ---- build_package / install_package: the expansion of one command
    expand_pc,          \* position in the expansion loop
    full_env,           \* full_env.items(): the pairs <<key, value>> in dict order
    build_command,      \* the command as the arieo_package.json gives it, token by token
    key_idx,            \* the loop over full_env.items()
    expanded_command,   \* expanded_command, character by character
    \* ---- generate_package_resolve_file: the name of a package's variables
    name_pc,            \* position in the computation of base_env_var_name
    pkg_name_chars,     \* pkg_name, character by character
    base_env_var_name,  \* base_env_var_name, character by character
    names_todo,         \* the names of install_order that the loop has still to visit
    public_names,       \* the names of the public folder variables emitted so far
    \* ---- parse_env_args
    parse_pc,           \* position of parse_env_args
    args,               \* the --env arguments: the two groups of env_pattern for each
    parsed_env_vars     \* env_vars, in dict order

init_vars == <<packages_data, init_pc, in_degree, graph, queue, result,
               resolve_file, init_error, init_exit>>

input_vars == <<arieo_package_json, os_environ, package_filter, extra_env_vars, stage,
                include_dependencies, manifest>>

run_vars == <<proc_pc, prepare_data, combo_idx, install_order, pkg_idx, public_env_vars_map,
              env, package_data, cmd_idx, cwd, original_cwd, executed, proc_error, proc_exit>>

expand_vars == <<expand_pc, full_env, build_command, key_idx, expanded_command>>

name_vars == <<name_pc, pkg_name_chars, base_env_var_name, names_todo, public_names>>

parse_vars == <<parse_pc, args, parsed_env_vars>>

vars == <<init_vars, input_vars, run_vars, expand_vars, name_vars, parse_vars>>

NoFile == [exists |-> FALSE]
NoError == [kind |-> "none"]

(***************************************************************************)
(* init_packages.py: packages_data.                                        *)
(***************************************************************************)
\* A git URL is its path segments; a trailing ".git" is a separate marker.
GitUrl(repo) == [segments |-> <<"https:", "host", repo>>, dotgit |-> TRUE]

\* dep_git_url.rstrip('/').split('/')[-1].replace('.git', '')
DepName(git_url) == git_url.segments[Len(git_url.segments)]

Keys(pd) == {pd[i].key : i \in 1..Len(pd)}

Info(pd, k) == pd[CHOOSE i \in 1..Len(pd) : pd[i].key = k]

\* What read_arieo_package_json returns for a file that is not there.
None == [none |-> TRUE]

\* arieo_data = pkg_info.get('arieo_package_data') or {}, read with the
\* defaults of its .get() calls
ArieoData(info) ==
    IF info.arieo_package_data = None
    THEN [name |-> info.key, dependencies |-> <<>>, build_commands |-> <<>>,
          install_commands |-> <<>>]
    ELSE info.arieo_package_data

\* arieo_data.get('dependencies', {}).get('packages', [])
DepPackages(info) == ArieoData(info).dependencies

(***************************************************************************)
(* check_dependency_conflicts.                                             *)
(***************************************************************************)
\* The tag dependency_requirements[dep_name][pkg_name] ends with: every
\* reference of pkg_name to dep_name assigns it, so the last one stays.
LastTag(deps, d) ==
    deps[Max({j \in 1..Len(deps) : DepName(deps[j].git_url) = d})].tag

DependencyRequirements(pd) ==
    LET refs(k) == {DepName(DepPackages(Info(pd, k))[j].git_url) :
                        j \in 1..Len(DepPackages(Info(pd, k)))}
        names == UNION {refs(k) : k \in Keys(pd)}
    IN  [d \in names |->
            [k \in {k \in Keys(pd) : d \in refs(k)} |->
                LastTag(DepPackages(Info(pd, k)), d)]]

\* The check that finds no conflict.
ConflictsIgnored(pd) == {}

Conflicts(pd) ==
    LET req == DependencyRequirements(pd)
    IN  {d \in DOMAIN req : Cardinality({req[d][k] : k \in DOMAIN req[d]}) > 1}

(***************************************************************************)
(* topological_sort.                                                       *)
(***************************************************************************)
CountRefs(deps, d) == Cardinality({j \in 1..Len(deps) : DepName(deps[j].git_url) = d})

\* in_degree[pkg_name] += 1 for every reference to a known package
InDegree(pd) ==
    [k \in Keys(pd) |->
        Cardinality({j \in 1..Len(DepPackages(Info(pd, k))) :
                        DepName(DepPackages(Info(pd, k))[j].git_url) \in Keys(pd)})]

\* graph[dep_name].append(pkg_name), packages in dict order, references in list order
Graph(pd) ==
    [d \in Keys(pd) |->
        Flatten([i \in 1..Len(pd) |-> Repeat(pd[i].key, CountRefs(DepPackages(pd[i]), d))])]

\* queue = [pkg for pkg in packages_data if in_degree[pkg] == 0]
InitialQueue(pd, deg) ==
    LET RECURSIVE From(_)
        From(i) == IF i > Len(pd) THEN <<>>
                   ELSE (IF deg[pd[i].key] = 0 THEN <<pd[i].key>> ELSE <<>>) \o From(i + 1)
    IN  From(1)

\* Relax with the test "in_degree[neighbor] == 0" left out: every decrement appends.
RECURSIVE RelaxNoZeroTest(_, _, _)
RelaxNoZeroTest(neighbors, deg, q) ==
    IF neighbors = <<>> THEN [in_degree |-> deg, queue |-> q]
    ELSE RelaxNoZeroTest(Tail(neighbors), [deg EXCEPT ![Head(neighbors)] = @ - 1],
                         Append(q, Head(neighbors)))

\* for neighbor in graph[current]: in_degree[neighbor] -= 1; append when it reaches 0
RECURSIVE Relax(_, _, _)
Relax(neighbors, deg, q) ==
    IF neighbors = <<>> THEN [in_degree |-> deg, queue |-> q]
    ELSE LET n == Head(neighbors)
             deg2 == [deg EXCEPT ![n] = @ - 1]
         IN  Relax(Tail(neighbors), deg2, IF deg2[n] = 0 THEN Append(q, n) ELSE q)

\* The whole while loop, from a given loop state.
RECURSIVE KahnLoop(_, _, _, _)
KahnLoop(g, deg, q, res) ==
    IF q = <<>> THEN res
    ELSE LET r == Relax(g[Head(q)], deg, Tail(q))
         IN  KahnLoop(g, r.in_degree, r.queue, Append(res, Head(q)))

TopologicalOrder(pd) == KahnLoop(Graph(pd), InDegree(pd), InitialQueue(pd, InDegree(pd)), <<>>)

(***************************************************************************)
(* generate_package_resolve_file.                                          *)
(***************************************************************************)
\* A Python dict is kept as the sequence of its values in insertion order;
\* assigning an existing key replaces the value and keeps its position.
DictKeys(dict) == {dict[i].name : i \in 1..Len(dict)}

DictGet(dict, name) == dict[CHOOSE i \in 1..Len(dict) : dict[i].name = name]

DictPut(dict, entry) ==
    IF entry.name \in DictKeys(dict)
    THEN [i \in 1..Len(dict) |-> IF dict[i].name = entry.name THEN entry ELSE dict[i]]
    ELSE Append(dict, entry)

SourceFolder(info) == "/src/" \o info.folder_name
InstallFolder(info) == "/install/" \o info.folder_name
BuildFolder(info) == "/build/" \o info.folder_name

\* 'ARIEO_PACKAGE_' + pkg_name.upper().replace('-', '_')
\*                            .replace('ARIEOENGINE_', '').replace('ARIEO_', '')
\* The repository names of the model are upper-case letters, which upper() and
\* the three replace() calls leave as they are.
BaseEnvVarName(pkg_name) == "ARIEO_PACKAGE_" \o pkg_name

\* arieo_data.get('name', pkg_name)
PackageName(info) == ArieoData(info).name

RootEnvironmentVariables ==
    <<[type |-> "public", name |-> "ARIEO_PACKAGE_ROOT_INSTALL_FOLDER", value |-> "/install"]>>

PackageEnvironmentVariables(info) ==
    <<[type |-> "public",  name |-> BaseEnvVarName(info.key) \o "_INSTALL_FOLDER", value |-> InstallFolder(info)],
      [type |-> "private", name |-> BaseEnvVarName(info.key) \o "_SOURCE_FOLDER",  value |-> SourceFolder(info)],
      [type |-> "private", name |-> BaseEnvVarName(info.key) \o "_BUILD_FOLDER",   value |-> BuildFolder(info)],
      [type |-> "private", name |-> "ARIEO_CUR_PACKAGE_SOURCE_FOLDER",  value |-> SourceFolder(info)],
      [type |-> "private", name |-> "ARIEO_CUR_PACKAGE_BUILD_FOLDER",   value |-> BuildFolder(info)],
      [type |-> "private", name |-> "ARIEO_CUR_PACKAGE_INSTALL_FOLDER", value |-> InstallFolder(info)],
      [type |-> "private", name |-> "ARIEO_CUR_PACKAGE_NAME",           value |-> PackageName(info)]>>

PackageEntry(idx, info) ==
    [build_index |-> idx,
     name |-> PackageName(info),
     git_url |-> info.git_url,
     tag |-> info.tag,
     source_folder |-> SourceFolder(info),
     install_folder |-> InstallFolder(info),
     build_folder |-> BuildFolder(info),
     environment_variables |-> PackageEnvironmentVariables(info),
     build_commands |-> ArieoData(info).build_commands,
     install_commands |-> ArieoData(info).install_commands,
     dependencies |->
        [j \in 1..Len(DepPackages(info)) |->
            [name |-> DepName(DepPackages(info)[j].git_url),
             git_url |-> DepPackages(info)[j].git_url,
             tag |-> DepPackages(info)[j].tag]]]

\* for idx, pkg_name in enumerate(install_order, 1): ... resolve_data['packages'][package_name] = package_entry
RECURSIVE ResolvePackages(_, _, _, _)
ResolvePackages(order, pd, idx, dict) ==
    IF idx > Len(order) THEN dict
    ELSE ResolvePackages(order, pd, idx + 1,
                         DictPut(dict, PackageEntry(idx, Info(pd, order[idx]))))

ResolveData(order, pd) ==
    [exists |-> TRUE,
     environment_variables |-> RootEnvironmentVariables,
     install_order |-> [i \in 1..Len(order) |-> PackageName(Info(pd, order[i]))],
     packages |-> ResolvePackages(order, pd, 1, <<>>)]

(***************************************************************************)
(* init_all_packages, step by step.                                        *)
(***************************************************************************)
\* An arieo_package.json that is not there, and one json.load() cannot parse.
Missing == [file |-> "missing"]
Corrupt == [file |-> "corrupt"]

\* read_arieo_package_json of a file that parses, or is not there
ReadArieoPackageJson(file) == IF file = Missing THEN None ELSE file

\* The entry of packages_data for a repository of the manifest.
Downloaded(repo, arieo_data) ==
    [key |-> repo,
     git_url |-> GitUrl(repo),
     tag |-> "main",
     folder_name |-> repo,
     arieo_package_data |-> arieo_data]

\* The manifest that was read into packages_data.
ManifestOf(pd) ==
    [exists |-> TRUE,
     packages |-> [i \in 1..Len(pd) |->
                     [repo |-> pd[i].key,
                      file |-> IF pd[i].arieo_package_data = None THEN Missing
                               ELSE pd[i].arieo_package_data]]]

\* No manifest file at the path.
NoManifest == [exists |-> FALSE, packages |-> <<>>]

\* load_manifest: the manifest is read, or is not there
LoadManifest ==
    /\ init_pc = "load_manifest"
    /\ IF ~manifest.exists
       THEN /\ init_error' = [kind |-> "manifest_not_found"]
            /\ init_pc' = "exit"
            /\ init_exit' = 1
       ELSE /\ init_pc' = IF Len(manifest.packages) = 0 THEN "start" ELSE "download"
            /\ UNCHANGED <<init_error, init_exit>>
    /\ UNCHANGED <<packages_data, in_degree, graph, queue, result, resolve_file>>
    /\ UNCHANGED <<input_vars, run_vars, expand_vars, name_vars, parse_vars>>

\* STEP 1 of init_all_packages: every repository is downloaded and its
\* arieo_package.json read, in the order of the manifest
DownloadPackages ==
    /\ init_pc = "download"
    /\ LET unreadable == {i \in 1..Len(manifest.packages) : manifest.packages[i].file = Corrupt}
       IN  IF unreadable # {}
           THEN /\ init_error' = [kind |-> "arieo_package_json_unreadable",
                                  package |-> manifest.packages[CHOOSE i \in unreadable : \A j \in unreadable : i <= j].repo]
                /\ init_pc' = "exit"
                /\ init_exit' = 1
                /\ UNCHANGED packages_data
           ELSE /\ packages_data' =
                     [i \in 1..Len(manifest.packages) |->
                         Downloaded(manifest.packages[i].repo,
                                    ReadArieoPackageJson(manifest.packages[i].file))]
                /\ init_pc' = "start"
                /\ UNCHANGED <<init_error, init_exit>>
    /\ UNCHANGED <<in_degree, graph, queue, result, resolve_file>>
    /\ UNCHANGED <<input_vars, run_vars, expand_vars, name_vars, parse_vars>>

\* total_packages == 0: "No packages to download", the script ends with exit 0
NoPackages ==
    /\ init_pc = "start"
    /\ Len(packages_data) = 0
    /\ init_pc' = "done"
    /\ init_exit' = 0
    /\ UNCHANGED <<packages_data, in_degree, graph, queue, result, resolve_file, init_error>>
    /\ UNCHANGED <<input_vars, run_vars, expand_vars, name_vars, parse_vars>>

CheckDependencyConflicts ==
    /\ init_pc = "start"
    /\ Len(packages_data) > 0
    /\ LET c == Conflicts(packages_data)
           req == DependencyRequirements(packages_data)
       IN  IF c # {}
           THEN /\ init_error' = [kind |-> "conflict", conflicts |-> [d \in c |-> req[d]]]
                /\ init_pc' = "exit"
                /\ init_exit' = 1
           ELSE /\ init_pc' = "topological_sort"
                /\ UNCHANGED <<init_error, init_exit>>
    /\ UNCHANGED <<packages_data, in_degree, graph, queue, result, resolve_file>>
    /\ UNCHANGED <<input_vars, run_vars, expand_vars, name_vars, parse_vars>>

BuildGraph ==
    /\ init_pc = "topological_sort"
    /\ in_degree' = InDegree(packages_data)
    /\ graph' = Graph(packages_data)
    /\ queue' = InitialQueue(packages_data, InDegree(packages_data))
    /\ result' = <<>>
    /\ init_pc' = "kahn"
    /\ UNCHANGED <<packages_data, resolve_file, init_error, init_exit>>
    /\ UNCHANGED <<input_vars, run_vars, expand_vars, name_vars, parse_vars>>

KahnStep ==
    /\ init_pc = "kahn"
    /\ queue # <<>>
    /\ LET r == Relax(graph[Head(queue)], in_degree, Tail(queue))
       IN  /\ in_degree' = r.in_degree
           /\ queue' = r.queue
    /\ result' = Append(result, Head(queue))
    /\ UNCHANGED <<packages_data, init_pc, graph, resolve_file, init_error, init_exit>>
    /\ UNCHANGED <<input_vars, run_vars, expand_vars, name_vars, parse_vars>>

\* The circular-dependency test with "<" for "!=" and the operands swapped.
CircularDetectedSwapped(res, pd) == Len(pd) < Len(res)

\* if len(result) != len(packages_data)
CircularDetected(res, pd) == Len(res) # Len(pd)

CheckCircular ==
    /\ init_pc = "kahn"
    /\ queue = <<>>
    /\ IF CircularDetected(result, packages_data)
       THEN /\ init_error' = [kind |-> "cycle"]
            /\ init_pc' = "exit"
            /\ init_exit' = 1
       ELSE /\ init_pc' = "generate"
            /\ UNCHANGED <<init_error, init_exit>>
    /\ UNCHANGED <<packages_data, in_degree, graph, queue, result, resolve_file>>
    /\ UNCHANGED <<input_vars, run_vars, expand_vars, name_vars, parse_vars>>

\* json.dump(resolve_data, f) that leaves "install_order" out.
JsonDumpWithoutOrder(data) ==
    [exists |-> TRUE,
     members |-> <<<<"environment_variables", data.environment_variables>>,
                   <<"packages", [i \in 1..Len(data.packages) |->
                                    <<data.packages[i].name, data.packages[i]>>]>>>>]

\* json.dump(resolve_data, f): the members of the object in the insertion
\* order of the dict, those of "packages" as pairs of key and entry
JsonDump(data) ==
    [exists |-> TRUE,
     members |-> <<<<"environment_variables", data.environment_variables>>,
                   <<"install_order", data.install_order>>,
                   <<"packages", [i \in 1..Len(data.packages) |->
                                    <<data.packages[i].name, data.packages[i]>>]>>>>]

\* The dict json.load builds from the members of an object: a key that comes
\* again replaces the value in place.
RECURSIVE ObjectOf(_, _)
ObjectOf(pairs, dict) ==
    IF pairs = <<>> THEN dict
    ELSE ObjectOf(Tail(pairs), DictPut(dict, [Head(pairs)[2] EXCEPT !.name = Head(pairs)[1]]))

\* json.load(f) of the resolve file
JsonLoad(file) ==
    LET keys == {file.members[i][1] : i \in 1..Len(file.members)}
        value(k) == file.members[Max({i \in 1..Len(file.members) : file.members[i][1] = k})][2]
    IN  [k \in keys \cup {"exists"} |->
            IF k = "exists" THEN TRUE
            ELSE IF k = "packages" THEN ObjectOf(value(k), <<>>)
            ELSE value(k)]

\* generate_package_resolve_file; resolve_file is the document as json.load
\* reads it back
GeneratePackageResolveFile ==
    /\ init_pc = "generate"
    /\ resolve_file' = JsonLoad(JsonDump(ResolveData(result, packages_data)))
    /\ init_pc' = "done"
    /\ init_exit' = 0
    /\ UNCHANGED <<packages_data, in_degree, graph, queue, result, init_error>>
    /\ UNCHANGED <<input_vars, run_vars, expand_vars, name_vars, parse_vars>>

(***************************************************************************)
(* Manifests of the model.                                                 *)
(***************************************************************************)
DepRefs == {[git_url |-> GitUrl(r), tag |-> t] : r \in Repos, t \in Tags}

\* The dependency lists of packages i..n, with at most `budget` references in all.
RECURSIVE DepAssignments(_, _, _)
DepAssignments(i, n, budget) ==
    IF i > n THEN {<<>>}
    ELSE UNION {{<<d>> \o rest : d \in [1..k -> DepRefs],
                                 rest \in DepAssignments(i + 1, n, budget - k)} :
                k \in 0..Min(MaxDeps, budget)}

PackageInfo(repo, name, deps, build_commands, install_commands) ==
    Downloaded(repo, [name |-> name,
                      dependencies |-> deps,
                      build_commands |-> build_commands,
                      install_commands |-> install_commands])

\* No variable name is being generated.
NameIdle ==
    /\ name_pc = "idle"
    /\ pkg_name_chars = <<>>
    /\ base_env_var_name = <<>>
    /\ names_todo = <<>>
    /\ public_names = <<>>

\* No command line is being parsed.
ParseIdle ==
    /\ parse_pc = "idle"
    /\ args = <<>>
    /\ parsed_env_vars = <<>>

\* process_packages.py is not run.
\* No command is being expanded.
ExpandIdle ==
    /\ expand_pc = "idle"
    /\ full_env = <<>>
    /\ build_command = <<>>
    /\ key_idx = 0
    /\ expanded_command = <<>>

ProcessIdle ==
    /\ arieo_package_json = <<>>
    /\ os_environ = <<>>
    /\ package_filter = {}
    /\ extra_env_vars = <<>>
    /\ stage = "build_and_install"
    /\ include_dependencies = TRUE
    /\ proc_pc = "idle"
    /\ prepare_data = <<>>
    /\ combo_idx = 0
    /\ install_order = <<>>
    /\ pkg_idx = 0
    /\ public_env_vars_map = <<>>
    /\ env = <<>>
    /\ package_data = <<>>
    /\ cmd_idx = 0
    /\ cwd = "/work"
    /\ original_cwd = "/work"
    /\ executed = <<>>
    /\ proc_error = NoError
    /\ proc_exit = "running"

InitResolve ==
    /\ \E n \in 0..Len(RepoOrder) :
         \E deps \in DepAssignments(1, n, MaxRefs) :
            packages_data = [i \in 1..n |->
                PackageInfo(RepoOrder[i], RepoOrder[i], deps[i], <<"build">>, <<"install">>)]
    /\ init_pc = "start"
    /\ in_degree = <<>>
    /\ graph = <<>>
    /\ queue = <<>>
    /\ result = <<>>
    /\ resolve_file = NoFile
    /\ init_error = NoError
    /\ init_exit = "running"
    /\ ProcessIdle
    /\ ExpandIdle
    /\ NameIdle
    /\ ParseIdle
    /\ manifest = ManifestOf(packages_data)

NextResolve ==
    \/ NoPackages
    \/ CheckDependencyConflicts
    \/ BuildGraph
    \/ KahnStep
    \/ CheckCircular
    \/ GeneratePackageResolveFile

SpecResolve == InitResolve /\ [][NextResolve]_vars

(***************************************************************************)
(* Runs of init_packages.py with the resolve file of an earlier run at the *)
(* target path.                                                            *)
(***************************************************************************)
\* The resolve file that an earlier run left.
StaleFile ==
    [exists |-> TRUE, environment_variables |-> <<>>, install_order |-> <<"old">>,
     packages |-> <<>>]

InitRerun ==
    /\ \E n \in 0..Len(RepoOrder) :
         \E deps \in DepAssignments(1, n, MaxRefs) :
            packages_data = [i \in 1..n |->
                PackageInfo(RepoOrder[i], RepoOrder[i], deps[i], <<"build">>, <<"install">>)]
    /\ init_pc = "start"
    /\ in_degree = <<>>
    /\ graph = <<>>
    /\ queue = <<>>
    /\ result = <<>>
    /\ resolve_file = StaleFile
    /\ init_error = NoError
    /\ init_exit = "running"
    /\ ProcessIdle
    /\ ExpandIdle
    /\ NameIdle
    /\ ParseIdle
    /\ manifest = ManifestOf(packages_data)

SpecRerun == InitRerun /\ [][NextResolve]_vars

(***************************************************************************)
(* process_packages.py: dicts of environment variables.                    *)
(***************************************************************************)
EmptyMap == [x \in {} |-> ""]

MapPut(m, k, v) == [x \in (DOMAIN m) \cup {k} |-> IF x = k THEN v ELSE m[x]]

\* dict.update
MapUpdate(m, n) == [x \in (DOMAIN m) \cup (DOMAIN n) |-> IF x \in DOMAIN n THEN n[x] ELSE m[x]]

\* "if env_name and env_value": neither missing nor the empty string
Truthy(x) == x # ""

\* The root-level loop: every declaration with a name and a value, whatever its type.
RECURSIVE ApplyRootDeclarations(_, _)
ApplyRootDeclarations(m, decls) ==
    IF decls = <<>> THEN m
    ELSE ApplyRootDeclarations(
            IF Truthy(Head(decls).name) /\ Truthy(Head(decls).value)
            THEN MapPut(m, Head(decls).name, Head(decls).value) ELSE m,
            Tail(decls))

\* The per-package loops: every declaration of the given type with a name and a value.
RECURSIVE ApplyDeclarations(_, _, _)
ApplyDeclarations(m, decls, type) ==
    IF decls = <<>> THEN m
    ELSE ApplyDeclarations(
            IF Head(decls).type = type /\ Truthy(Head(decls).name) /\ Truthy(Head(decls).value)
            THEN MapPut(m, Head(decls).name, Head(decls).value) ELSE m,
            Tail(decls), type)

RootEnvVars(file) == ApplyRootDeclarations(EmptyMap, file.environment_variables)

\* for pkg_name, pkg_info in packages.items(): ... public_env_vars_map[env_name] = env_value
RECURSIVE ApplyPublicOfPackages(_, _)
ApplyPublicOfPackages(m, packages) ==
    IF packages = <<>> THEN m
    ELSE ApplyPublicOfPackages(
            ApplyDeclarations(m, Head(packages).environment_variables, "public"),
            Tail(packages))

\* root variables, then the public variables of every package, then the extra
\* variables of the command line
PublicEnvVarsMap(file, extra) ==
    MapUpdate(ApplyPublicOfPackages(RootEnvVars(file), file.packages), extra)

\* The package's map without its private declarations.
PackageEnvVarsMapPublicOnly(public, pkg_info) == public

\* The package's map with its private declarations below the public map.
PackageEnvVarsMapPrivateFirst(public, pkg_info) ==
    MapUpdate(ApplyDeclarations(EmptyMap, pkg_info.environment_variables, "private"), public)

\* all public + this package's private
PackageEnvVarsMap(public, pkg_info) ==
    ApplyDeclarations(public, pkg_info.environment_variables, "private")

\* setup_environment
SetupEnvironment(environ, src_path, build_folder, install_folder, env_vars_map) ==
    LET e1 == MapPut(environ, "SOURCE_FOLDER", src_path)
        e2 == IF Truthy(build_folder) THEN MapPut(e1, "BUILD_FOLDER", build_folder) ELSE e1
        e3 == IF Truthy(install_folder) THEN MapPut(e2, "INSTALL_FOLDER", install_folder) ELSE e2
    IN  MapUpdate(e3, env_vars_map)

(***************************************************************************)
(* generate_env_combinations.                                              *)
(***************************************************************************)
build_type_order == <<"Release", "RelWithDebInfo", "Debug", "MinSizeRel">>

\* 'BUILD_TYPE' in key.upper(), for the variable names of the model
IsBuildTypeKey(key) == key \in {"BUILD_TYPE", "CMAKE_BUILD_TYPE", "build_type"}

RECURSIVE AppendMissing(_, _)
AppendMissing(sorted_value, value) ==
    IF value = <<>> THEN sorted_value
    ELSE AppendMissing(IF Head(value) \in Range(sorted_value) THEN sorted_value
                       ELSE Append(sorted_value, Head(value)),
                       Tail(value))

SortedBuildTypes(value) ==
    AppendMissing(SelectSeq(build_type_order, LAMBDA b : b \in Range(value)), value)

\* multi_value_vars, in the order of env_vars
MultiValueVars(env_vars) ==
    LET multi == SelectSeq(env_vars, LAMBDA e : e.is_list)
    IN  [i \in 1..Len(multi) |->
            [name |-> multi[i].name,
             values |-> IF IsBuildTypeKey(multi[i].name) THEN SortedBuildTypes(multi[i].values)
                        ELSE multi[i].values]]

SingleValueVars(env_vars) ==
    LET single == SelectSeq(env_vars, LAMBDA e : ~e.is_list)
    IN  [n \in {single[i].name : i \in 1..Len(single)} |->
            single[CHOOSE i \in 1..Len(single) : single[i].name = n].value]

\* itertools.product(*value_lists): the last list varies fastest
RECURSIVE Product(_)
Product(value_lists) ==
    IF value_lists = <<>> THEN << <<>> >>
    ELSE LET rest == Product(Tail(value_lists))
         IN  Flatten([i \in 1..Len(Head(value_lists)) |->
                        [j \in 1..Len(rest) |-> <<Head(value_lists)[i]>> \o rest[j]]])

GenerateEnvCombinations(env_vars) ==
    IF env_vars = <<>> THEN <<EmptyMap>>
    ELSE LET multi == MultiValueVars(env_vars)
             single == SingleValueVars(env_vars)
             combos == Product([i \in 1..Len(multi) |-> multi[i].values])
         IN  IF multi = <<>> THEN <<single>>
             ELSE [c \in 1..Len(combos) |->
                    MapUpdate(single,
                              [n \in {multi[i].name : i \in 1..Len(multi)} |->
                                  combos[c][CHOOSE i \in 1..Len(multi) : multi[i].name = n]])]

(***************************************************************************)
(* gather_dependencies and the filtering of install_order.                 *)
(***************************************************************************)
RECURSIVE SetToSeq(_)
SetToSeq(S) == IF S = {} THEN <<>>
               ELSE LET x == CHOOSE y \in S : TRUE IN <<x>> \o SetToSeq(S \ {x})

\* add_package_with_deps without the recursion into the dependencies.
AddPackageAlone(pkg_name, res, packages) ==
    IF pkg_name \in res \/ pkg_name \notin DictKeys(packages) THEN res ELSE res \cup {pkg_name}

\* add_package_with_deps and its loop over the dependencies
RECURSIVE AddPackageWithDeps(_, _, _)
RECURSIVE AddPackagesWithDeps(_, _, _)
AddPackageWithDeps(pkg_name, res, packages) ==
    IF pkg_name \in res \/ pkg_name \notin DictKeys(packages) THEN res
    ELSE LET deps == DictGet(packages, pkg_name).dependencies
         IN  AddPackagesWithDeps([j \in 1..Len(deps) |-> deps[j].name],
                                 res \cup {pkg_name}, packages)

AddPackagesWithDeps(names, res, packages) ==
    IF names = <<>> THEN res
    ELSE AddPackagesWithDeps(Tail(names),
                             IF Truthy(Head(names))
                             THEN AddPackageWithDeps(Head(names), res, packages) ELSE res,
                             packages)

GatherDependencies(package_names, packages) ==
    AddPackagesWithDeps(SetToSeq(package_names), {}, packages)

\* The existence test failing only when no requested package exists.
MissingPackagesWhenNoneExists(filter, packages) ==
    IF filter \cap DictKeys(packages) = {} THEN filter ELSE {}

\* missing_packages = [pkg for pkg in package_filter if pkg not in packages]
MissingPackages(filter, packages) == {pkg \in filter : pkg \notin DictKeys(packages)}

PackagesToBuild(filter, packages, with_dependencies) ==
    IF with_dependencies THEN GatherDependencies(filter, packages) ELSE filter

\* list.sort(key=build_index): stable, insertion after the equal keys
RECURSIVE InsertByBuildIndex(_, _, _)
InsertByBuildIndex(sorted, pkg_name, packages) ==
    IF sorted = <<>> THEN <<pkg_name>>
    ELSE IF DictGet(packages, Head(sorted)).build_index
                <= DictGet(packages, pkg_name).build_index
         THEN <<Head(sorted)>> \o InsertByBuildIndex(Tail(sorted), pkg_name, packages)
         ELSE <<pkg_name>> \o sorted

RECURSIVE SortByBuildIndex(_, _, _)
SortByBuildIndex(sorted, order, packages) ==
    IF order = <<>> THEN sorted
    ELSE SortByBuildIndex(InsertByBuildIndex(sorted, Head(order), packages), Tail(order), packages)

\* "if package_filter:" ... install_order = [pkg for pkg in install_order if pkg in packages_to_build]
FilterInstallOrder(order, filter, packages, with_dependencies) ==
    IF filter # {}
    THEN SelectSeq(order, LAMBDA pkg : pkg \in PackagesToBuild(filter, packages, with_dependencies))
    ELSE order

\* the filtered install_order after install_order.sort(...)
FilteredInstallOrder(file, filter, with_dependencies) ==
    SortByBuildIndex(<<>>,
                     FilterInstallOrder(file.install_order, filter, file.packages, with_dependencies),
                     file.packages)

(***************************************************************************)
(* process_packages.py, step by step.                                      *)
(***************************************************************************)
\* exit statuses a build or install command may return
ReturnCodes == {0, 1}

\* The failure test with "<" for "!=".
CommandFailedNegative(rc) == rc < 0

\* if result.returncode != 0
CommandFailed(rc) == rc # 0

ProcessExit(error) ==
    /\ proc_pc' = "exit"
    /\ proc_exit' = 1
    /\ proc_error' = error

\* A resolve file that json.load cannot parse.
CorruptFile == [exists |-> TRUE, corrupt |-> TRUE]

\* dict.get(key, default)
Get(doc, key, default) == IF key \in DOMAIN doc THEN doc[key] ELSE default

\* resolve_data = json.load(f) as the orchestrator reads it:
\* resolve_data.get('install_order', []), resolve_data.get('packages', {}),
\* resolve_data.get('environment_variables', [])
LoadResolveData(file) ==
    [exists |-> TRUE,
     install_order |-> Get(file, "install_order", <<>>),
     packages |-> Get(file, "packages", <<>>),
     environment_variables |-> Get(file, "environment_variables", <<>>)]

\* prepare_process_packages and confirm_process_packages
PrepareProcessPackages ==
    /\ proc_pc = "start"
    /\ IF ~manifest.exists
       THEN /\ ProcessExit([kind |-> "manifest_not_found"])
            /\ UNCHANGED <<prepare_data, combo_idx>>
       ELSE IF ~resolve_file.exists
       THEN /\ ProcessExit([kind |-> "resolve_file_not_found"])
            /\ UNCHANGED <<prepare_data, combo_idx>>
       ELSE IF resolve_file = CorruptFile
       THEN /\ ProcessExit([kind |-> "resolve_file_unreadable"])
            /\ UNCHANGED <<prepare_data, combo_idx>>
       ELSE IF package_filter # {} /\ MissingPackages(package_filter, LoadResolveData(resolve_file).packages) # {}
       THEN /\ ProcessExit([kind |-> "unknown_package",
                            missing |-> MissingPackages(package_filter, LoadResolveData(resolve_file).packages),
                            available |-> DictKeys(LoadResolveData(resolve_file).packages)])
            /\ UNCHANGED <<prepare_data, combo_idx>>
       ELSE IF \E n \in Range(FilterInstallOrder(LoadResolveData(resolve_file).install_order, package_filter,
                                                 LoadResolveData(resolve_file).packages, include_dependencies)) :
                    n \notin DictKeys(LoadResolveData(resolve_file).packages)
       THEN \* packages[pkg_name] in the sort key raises KeyError
            /\ ProcessExit([kind |-> "KeyError"])
            /\ UNCHANGED <<prepare_data, combo_idx>>
       ELSE /\ prepare_data' =
                [install_order |-> FilteredInstallOrder(LoadResolveData(resolve_file), package_filter,
                                                        include_dependencies),
                 env_combinations |-> IF extra_env_vars # <<>>
                                      THEN GenerateEnvCombinations(extra_env_vars)
                                      ELSE <<EmptyMap>>,
                 stage |-> stage]
            /\ combo_idx' = 1
            /\ proc_pc' = "process"
            /\ UNCHANGED <<proc_error, proc_exit>>
    /\ UNCHANGED <<install_order, pkg_idx, public_env_vars_map, env, package_data, cmd_idx,
                   cwd, original_cwd, executed>>
    /\ UNCHANGED <<init_vars, input_vars, expand_vars, name_vars, parse_vars>>

\* process_packages: the next combination; process_packages_from_resolve up to its loop.
\* The filtered install_order of prepare_data is passed as package_filter.
BeginCombination ==
    /\ proc_pc = "process"
    /\ combo_idx <= Len(prepare_data.env_combinations)
    /\ install_order' = FilteredInstallOrder(LoadResolveData(resolve_file), Range(prepare_data.install_order), FALSE)
    /\ public_env_vars_map' = PublicEnvVarsMap(LoadResolveData(resolve_file), prepare_data.env_combinations[combo_idx])
    /\ pkg_idx' = 1
    /\ proc_pc' = "package"
    /\ UNCHANGED <<prepare_data, combo_idx, env, package_data, cmd_idx, cwd, original_cwd,
                   executed, proc_error, proc_exit>>
    /\ UNCHANGED <<init_vars, input_vars, expand_vars, name_vars, parse_vars>>

\* process_packages: every combination is processed; sys.exit(0)
FinishProcess ==
    /\ proc_pc = "process"
    /\ combo_idx > Len(prepare_data.env_combinations)
    /\ proc_pc' = "done"
    /\ proc_exit' = 0
    /\ UNCHANGED <<prepare_data, combo_idx, install_order, pkg_idx, public_env_vars_map, env,
                   package_data, cmd_idx, cwd, original_cwd, executed, proc_error>>
    /\ UNCHANGED <<init_vars, input_vars, expand_vars, name_vars, parse_vars>>

PkgInfo == DictGet(LoadResolveData(resolve_file).packages, install_order[pkg_idx])

\* the loop body of process_packages_from_resolve up to the stage dispatch:
\* the package's env vars map, load_package_data, setup_environment
BeginPackage ==
    /\ proc_pc = "package"
    /\ pkg_idx <= Len(install_order)
    /\ IF PkgInfo.source_folder \notin DOMAIN arieo_package_json
       THEN /\ ProcessExit([kind |-> "arieo_package_json_not_found", package |-> PkgInfo.name])
            /\ UNCHANGED <<env, package_data>>
       ELSE IF arieo_package_json[PkgInfo.source_folder] = Corrupt
       THEN /\ ProcessExit([kind |-> "arieo_package_json_unreadable", package |-> PkgInfo.name])
            /\ UNCHANGED <<env, package_data>>
       ELSE /\ package_data' = arieo_package_json[PkgInfo.source_folder]
            /\ env' = SetupEnvironment(os_environ, PkgInfo.source_folder, PkgInfo.build_folder,
                                       PkgInfo.install_folder,
                                       PackageEnvVarsMap(public_env_vars_map, PkgInfo))
            /\ proc_pc' = IF prepare_data.stage = "install" THEN "install_package"
                          ELSE "build_package"
            /\ UNCHANGED <<proc_error, proc_exit>>
    /\ UNCHANGED <<prepare_data, combo_idx, install_order, pkg_idx, public_env_vars_map,
                   cmd_idx, cwd, original_cwd, executed>>
    /\ UNCHANGED <<init_vars, input_vars, expand_vars, name_vars, parse_vars>>

\* process_packages_from_resolve returns: the loop over install_order is over
EndCombination ==
    /\ proc_pc = "package"
    /\ pkg_idx > Len(install_order)
    /\ combo_idx' = combo_idx + 1
    /\ proc_pc' = "process"
    /\ UNCHANGED <<prepare_data, install_order, pkg_idx, public_env_vars_map, env, package_data,
                   cmd_idx, cwd, original_cwd, executed, proc_error, proc_exit>>
    /\ UNCHANGED <<init_vars, input_vars, expand_vars, name_vars, parse_vars>>

\* The dispatch on stage with install_package left out after build_package.
AfterBuildNextPackage ==
    /\ pkg_idx' = pkg_idx + 1
    /\ proc_pc' = "package"

\* build_package returned True: install_package follows under build_and_install
AfterBuild ==
    IF prepare_data.stage = "build"
    THEN /\ pkg_idx' = pkg_idx + 1
         /\ proc_pc' = "package"
    ELSE /\ pkg_idx' = pkg_idx
         /\ proc_pc' = "install_package"

\* install_package returned True: the next package
AfterInstall ==
    /\ pkg_idx' = pkg_idx + 1
    /\ proc_pc' = "package"

\* full_env without full_env.update(env).
FullEnvInherited(environ, e) == environ

\* full_env = os.environ.copy(); full_env.update(env)
FullEnv(environ, e) == MapUpdate(environ, e)

Execution(stage_name, command, rc) ==
    [combo |-> combo_idx,
     package |-> install_order[pkg_idx],
     position |-> pkg_idx,
     stage |-> stage_name,
     index |-> cmd_idx,
     command |-> command,
     env |-> FullEnv(os_environ, env),
     cwd |-> PkgInfo.source_folder,
     returncode |-> rc]

\* The failure paths and the return without os.chdir(original_cwd).
RestoreCwdSkipped == UNCHANGED cwd

\* os.chdir(original_cwd)
RestoreCwd == cwd' = original_cwd

\* A stage that runs its loop over an empty list too.
NoCommandsNever(commands) == FALSE

\* if not build_commands: / if not install_commands:
NoCommands(commands) == commands = <<>>

\* build_package up to its loop
EnterBuild ==
    /\ proc_pc = "build_package"
    /\ IF NoCommands(package_data.build_commands)
       THEN /\ AfterBuild
            /\ UNCHANGED <<env, cmd_idx, cwd, original_cwd>>
       ELSE /\ original_cwd' = cwd
            /\ cwd' = PkgInfo.source_folder
            /\ env' = IF "ARIEO_CUR_PACKAGE_BUILD_FOLDER" \in DOMAIN env
                      THEN MapPut(env, "ARIEO_BUILDENV_BUILD_FOLDER",
                                  env["ARIEO_CUR_PACKAGE_BUILD_FOLDER"])
                      ELSE env
            /\ cmd_idx' = 1
            /\ proc_pc' = "build_commands"
            /\ UNCHANGED pkg_idx
    /\ UNCHANGED <<prepare_data, combo_idx, install_order, public_env_vars_map, package_data,
                   executed, proc_error, proc_exit>>
    /\ UNCHANGED <<init_vars, input_vars, expand_vars, name_vars, parse_vars>>

\* one iteration of the loop of build_package
BuildCommand ==
    /\ proc_pc = "build_commands"
    /\ cmd_idx <= Len(package_data.build_commands)
    /\ \E rc \in ReturnCodes :
          /\ executed' = Append(executed, Execution("build", package_data.build_commands[cmd_idx], rc))
          /\ IF CommandFailed(rc)
             THEN /\ RestoreCwd
                  /\ ProcessExit([kind |-> "command_failed", stage |-> "build",
                                  command |-> package_data.build_commands[cmd_idx]])
                  /\ UNCHANGED cmd_idx
             ELSE /\ cmd_idx' = cmd_idx + 1
                  /\ UNCHANGED <<cwd, proc_pc, proc_error, proc_exit>>
    /\ UNCHANGED <<prepare_data, combo_idx, install_order, pkg_idx, public_env_vars_map, env,
                   package_data, original_cwd>>
    /\ UNCHANGED <<init_vars, input_vars, expand_vars, name_vars, parse_vars>>

\* an exception raised in the loop of build_package: the except clause
BuildException ==
    /\ proc_pc = "build_commands"
    /\ cmd_idx <= Len(package_data.build_commands)
    /\ RestoreCwd
    /\ ProcessExit([kind |-> "exception", stage |-> "build",
                    command |-> package_data.build_commands[cmd_idx]])
    /\ UNCHANGED <<prepare_data, combo_idx, install_order, pkg_idx, public_env_vars_map, env,
                   package_data, cmd_idx, original_cwd, executed>>
    /\ UNCHANGED <<init_vars, input_vars, expand_vars, name_vars, parse_vars>>

\* build_package after its loop
LeaveBuild ==
    /\ proc_pc = "build_commands"
    /\ cmd_idx > Len(package_data.build_commands)
    /\ RestoreCwd
    /\ AfterBuild
    /\ UNCHANGED <<prepare_data, combo_idx, install_order, public_env_vars_map, env, package_data,
                   cmd_idx, original_cwd, executed, proc_error, proc_exit>>
    /\ UNCHANGED <<init_vars, input_vars, expand_vars, name_vars, parse_vars>>

\* install_package up to its loop
EnterInstall ==
    /\ proc_pc = "install_package"
    /\ IF NoCommands(package_data.install_commands)
       THEN /\ AfterInstall
            /\ UNCHANGED <<cmd_idx, cwd, original_cwd>>
       ELSE /\ original_cwd' = cwd
            /\ cwd' = PkgInfo.source_folder
            /\ cmd_idx' = 1
            /\ proc_pc' = "install_commands"
            /\ UNCHANGED pkg_idx
    /\ UNCHANGED <<prepare_data, combo_idx, install_order, public_env_vars_map, env, package_data,
                   executed, proc_error, proc_exit>>
    /\ UNCHANGED <<init_vars, input_vars, expand_vars, name_vars, parse_vars>>

\* one iteration of the loop of install_package
InstallCommand ==
    /\ proc_pc = "install_commands"
    /\ cmd_idx <= Len(package_data.install_commands)
    /\ \E rc \in ReturnCodes :
          /\ executed' = Append(executed, Execution("install", package_data.install_commands[cmd_idx], rc))
          /\ IF CommandFailed(rc)
             THEN /\ RestoreCwd
                  /\ ProcessExit([kind |-> "command_failed", stage |-> "install",
                                  command |-> package_data.install_commands[cmd_idx]])
                  /\ UNCHANGED cmd_idx
             ELSE /\ cmd_idx' = cmd_idx + 1
                  /\ UNCHANGED <<cwd, proc_pc, proc_error, proc_exit>>
    /\ UNCHANGED <<prepare_data, combo_idx, install_order, pkg_idx, public_env_vars_map, env,
                   package_data, original_cwd>>
    /\ UNCHANGED <<init_vars, input_vars, expand_vars, name_vars, parse_vars>>

\* an exception raised in the loop of install_package: the except clause
InstallException ==
    /\ proc_pc = "install_commands"
    /\ cmd_idx <= Len(package_data.install_commands)
    /\ RestoreCwd
    /\ ProcessExit([kind |-> "exception", stage |-> "install",
                    command |-> package_data.install_commands[cmd_idx]])
    /\ UNCHANGED <<prepare_data, combo_idx, install_order, pkg_idx, public_env_vars_map, env,
                   package_data, cmd_idx, original_cwd, executed>>
    /\ UNCHANGED <<init_vars, input_vars, expand_vars, name_vars, parse_vars>>

\* install_package after its loop
LeaveInstall ==
    /\ proc_pc = "install_commands"
    /\ cmd_idx > Len(package_data.install_commands)
    /\ RestoreCwd
    /\ AfterInstall
    /\ UNCHANGED <<prepare_data, combo_idx, install_order, public_env_vars_map, env, package_data,
                   cmd_idx, original_cwd, executed, proc_error, proc_exit>>
    /\ UNCHANGED <<init_vars, input_vars, expand_vars, name_vars, parse_vars>>

NextProcess ==
    \/ PrepareProcessPackages
    \/ BeginCombination
    \/ FinishProcess
    \/ BeginPackage
    \/ EndCombination
    \/ EnterBuild
    \/ BuildCommand
    \/ BuildException
    \/ LeaveBuild
    \/ EnterInstall
    \/ InstallCommand
    \/ InstallException
    \/ LeaveInstall

(***************************************************************************)
(* Runs of process_packages.py on the resolve files that init_packages.py  *)
(* writes.                                                                 *)
(***************************************************************************)
\* commands of the longest command list of a package
MaxCmds == 2
\* names given with --package
MaxFilter == 2
\* values of the multi-valued --env variable
MaxValues == 2

Stages == {"build", "install", "build_and_install"}

\* Names a --package argument may give; "Z" is the name of no repository.
FilterNames == Repos \cup {"Z"}

\* The "name" of an arieo_package.json: the repository name, the name of
\* another repository, or a name of its own.
DeclaredNames(repo) == IF repo = "C" THEN {"C", "A", "Z"} ELSE {repo}

Commands(repo, kind, n) == [i \in 1..n |-> repo \o "." \o kind \o "." \o ToString(i)]

\* A has several build commands and one install command, B one build command
\* and no install command, C no build command and several install commands.
BuildCommandsOf(repo) ==
    Commands(repo, "build", IF repo = "A" THEN MaxCmds ELSE IF repo = "B" THEN 1 ELSE 0)

InstallCommandsOf(repo) ==
    Commands(repo, "install", IF repo = "A" THEN 1 ELSE IF repo = "B" THEN 0 ELSE MaxCmds)

\* Dependency lists that name each repository at most once, all with one tag.
UniqueDepLists ==
    {d \in SeqsUpTo({[git_url |-> GitUrl(r), tag |-> "t1"] : r \in Repos}, Min(MaxDeps, Len(RepoOrder))) :
        \A i, j \in 1..Len(d) :
            i < j => PositionIn(RepoOrder, DepName(d[i].git_url)) < PositionIn(RepoOrder, DepName(d[j].git_url))}

\* The manifests init_packages.py resolves without error.
Resolvable(pd) ==
    /\ Conflicts(pd) = {}
    /\ ~CircularDetected(TopologicalOrder(pd), pd)

RunManifests ==
    {pd \in {[i \in 1..Len(RepoOrder) |->
                PackageInfo(RepoOrder[i], names[i], deps[i],
                            BuildCommandsOf(RepoOrder[i]), InstallCommandsOf(RepoOrder[i]))] :
                names \in {n \in [1..Len(RepoOrder) -> FilterNames] :
                              \A i \in 1..Len(RepoOrder) : n[i] \in DeclaredNames(RepoOrder[i])},
                deps \in [1..Len(RepoOrder) -> UniqueDepLists]} :
        Resolvable(pd)}

\* The arieo_package.json files as init_packages.py read them.
PackageFiles(pd) ==
    [f \in {SourceFolder(pd[i]) : i \in 1..Len(pd)} |->
        (pd[CHOOSE i \in 1..Len(pd) : SourceFolder(pd[i]) = f]).arieo_package_data]

InheritedEnvironment == [x \in {"PATH"} |-> "/bin"]

ProcessStart ==
    /\ ExpandIdle
    /\ NameIdle
    /\ ParseIdle
    /\ proc_pc = "start"
    /\ prepare_data = <<>>
    /\ combo_idx = 0
    /\ install_order = <<>>
    /\ pkg_idx = 0
    /\ public_env_vars_map = <<>>
    /\ env = <<>>
    /\ package_data = <<>>
    /\ cmd_idx = 0
    /\ cwd = "/work"
    /\ original_cwd = "/work"
    /\ executed = <<>>
    /\ proc_error = NoError
    /\ proc_exit = "running"

\* init_packages.py has run on packages_data and written resolve_file.
ResolvedTo(pd, file) ==
    /\ packages_data = pd
    /\ init_pc = "done"
    /\ in_degree = <<>>
    /\ graph = <<>>
    /\ queue = <<>>
    /\ result = TopologicalOrder(pd)
    /\ resolve_file = file
    /\ init_error = NoError
    /\ init_exit = 0
    /\ arieo_package_json = PackageFiles(pd)
    /\ manifest = ManifestOf(pd)

Resolved(pd) == ResolvedTo(pd, ResolveData(TopologicalOrder(pd), pd))

InitRun ==
    /\ \E pd \in RunManifests : Resolved(pd)
    /\ os_environ = InheritedEnvironment
    /\ package_filter \in {F \in SUBSET FilterNames : Cardinality(F) <= MaxFilter}
    /\ include_dependencies \in BOOLEAN
    /\ package_filter = {} => include_dependencies
    /\ stage \in Stages
    /\ extra_env_vars \in {<<>>,
                           <<[name |-> "X", is_list |-> TRUE,
                              values |-> [i \in 1..MaxValues |-> ToString(i)]]>>}
    /\ ProcessStart

SpecRun == InitRun /\ [][NextProcess]_vars

(***************************************************************************)
(* Runs of process_packages.py on resolve files that carry declarations    *)
(* besides the ones generate_package_resolve_file derives from the folders.*)
(***************************************************************************)
\* Declarations of the variables X and S that a package of a resolve file may
\* carry, in the order in which the file lists them.
PackageDeclarations ==
    <<[type |-> "public", name |-> "X", value |-> "1"],
      [type |-> "private", name |-> "X", value |-> "2"],
      [type |-> "private", name |-> "S", value |-> "2"]>>

DeclarationLists ==
    {SelectSeq(PackageDeclarations, LAMBDA d : d \in S) : S \in SUBSET Range(PackageDeclarations)}

RootDeclarations == {[type |-> "public", name |-> "X", value |-> "1"]}

\* The resolve file with more declarations at the root and in each package.
WithDeclarations(file, root_decls, pkg_decls) ==
    [file EXCEPT !.environment_variables = @ \o root_decls,
                 !.packages = [i \in 1..Len(@) |->
                                 [@[i] EXCEPT !.environment_variables = @ \o pkg_decls[i]]]]

\* The manifest of A and B, with or without the dependency of B on A.
EnvManifests ==
    {[i \in 1..2 |-> PackageInfo(RepoOrder[i], RepoOrder[i],
                                 IF i = 2 THEN d ELSE <<>>,
                                 BuildCommandsOf(RepoOrder[i]), InstallCommandsOf(RepoOrder[i]))] :
        d \in {<<>>, <<[git_url |-> GitUrl("A"), tag |-> "t1"]>>}}

InitEnv ==
    /\ \E pd \in EnvManifests :
         \E root_decls \in SeqsUpTo(RootDeclarations, 1),
            pkg_decls \in [1..Len(pd) -> DeclarationLists] :
              ResolvedTo(pd, WithDeclarations(ResolveData(TopologicalOrder(pd), pd),
                                              root_decls, pkg_decls))
    /\ os_environ \in {InheritedEnvironment, MapPut(InheritedEnvironment, "X", "9"),
                        MapPut(InheritedEnvironment, "SOURCE_FOLDER", "/x")}
    /\ package_filter = {}
    /\ include_dependencies = TRUE
    /\ stage \in Stages
    /\ extra_env_vars \in {<<>>,
                           <<[name |-> "X", is_list |-> FALSE, value |-> "3"]>>,
                           <<[name |-> "ARIEO_BUILDENV_BUILD_FOLDER", is_list |-> FALSE,
                              value |-> "/x"]>>,
                           <<[name |-> "Y", is_list |-> TRUE,
                              values |-> [i \in 1..MaxValues |-> ToString(i)]]>>}
    /\ ProcessStart

SpecEnv == InitEnv /\ [][NextProcess]_vars

(***************************************************************************)
(* Runs of process_packages.py on resolve files in which packages declare  *)
(* one public variable, each with a value of its own.                      *)
(***************************************************************************)
\* The public declaration of X in the entry written for repository `repo`.
PublicDeclarationOf(repo) == [type |-> "public", name |-> "X", value |-> "x" \o repo]

\* --env ARIEO_CUR_PACKAGE_NAME=other on the command line
CurNameOverride == [name |-> "ARIEO_CUR_PACKAGE_NAME", is_list |-> FALSE, value |-> "other"]

\* The repository for which generate_package_resolve_file wrote the entry.
RepoOfEntry(entry) == CHOOSE r \in Repos : entry.git_url = GitUrl(r)

\* The manifests of A, B and C without dependencies; C declares its own name,
\* the name of A or a third name.
PublicManifests ==
    {pd \in RunManifests : \A i \in 1..Len(pd) : DepPackages(pd[i]) = <<>>}

InitPublic ==
    /\ \E pd \in PublicManifests :
         \E declaring \in SUBSET Repos, root_decls \in SeqsUpTo(RootDeclarations, 1) :
            LET file == ResolveData(TopologicalOrder(pd), pd)
            IN  ResolvedTo(pd, WithDeclarations(file, root_decls,
                    [i \in 1..Len(file.packages) |->
                        IF RepoOfEntry(file.packages[i]) \in declaring
                        THEN <<PublicDeclarationOf(RepoOfEntry(file.packages[i]))>>
                        ELSE <<>>]))
    /\ os_environ = InheritedEnvironment
    /\ package_filter \in {F \in SUBSET FilterNames : Cardinality(F) <= MaxFilter}
    /\ include_dependencies \in BOOLEAN
    /\ package_filter = {} => include_dependencies
    /\ stage \in Stages
    /\ extra_env_vars \in {<<>>, <<CurNameOverride>>}
    /\ ProcessStart

SpecPublic == InitPublic /\ [][NextProcess]_vars

(***************************************************************************)
(* Runs of process_packages.py on files that are not what init_packages.py *)
(* left: no manifest, no resolve file, a resolve file that does not parse  *)
(* or lacks fields, an arieo_package.json removed, damaged or edited after *)
(* the resolution.                                                         *)
(***************************************************************************)
ResolveFields == {"environment_variables", "install_order", "packages"}

\* The resolve file with only the given fields.
WithFields(file, fields) == [k \in fields \cup {"exists"} |-> file[k]]

\* The resolve files found in place of the one that was written.
\* Among them: the file without some of its fields, and the file whose
\* install_order lost its first name.
ResolveFiles(file) ==
    {NoFile, CorruptFile}
      \cup {WithFields(file, F) : F \in SUBSET ResolveFields}
      \cup {[file EXCEPT !.install_order = SubSeq(@, 2, Len(@))]}

\* An arieo_package.json whose commands were rewritten after the resolution.
Edited(doc) ==
    [doc EXCEPT !.build_commands = <<"edited.build">>, !.install_commands = <<"edited.install">>]

\* The arieo_package.json files as they were read, or with one of them
\* removed, unreadable or edited.
PackageFilesNow(files) ==
    {files}
      \cup {[g \in DOMAIN files \ {f} |-> files[g]] : f \in DOMAIN files}
      \cup {[files EXCEPT ![f] = Corrupt] : f \in DOMAIN files}
      \cup {[files EXCEPT ![f] = Edited(files[f])] : f \in DOMAIN files}

InitFiles ==
    /\ \E pd \in PublicManifests :
          /\ packages_data = pd
          /\ result = TopologicalOrder(pd)
          /\ manifest \in {ManifestOf(pd), NoManifest}
          /\ resolve_file \in ResolveFiles(ResolveData(TopologicalOrder(pd), pd))
          /\ arieo_package_json \in PackageFilesNow(PackageFiles(pd))
    /\ init_pc = "done"
    /\ in_degree = <<>>
    /\ graph = <<>>
    /\ queue = <<>>
    /\ init_error = NoError
    /\ init_exit = 0
    /\ os_environ = InheritedEnvironment
    /\ package_filter \in {{}, {"A"}}
    /\ include_dependencies = TRUE
    /\ stage \in Stages
    /\ extra_env_vars = <<>>
    /\ ProcessStart

SpecFiles == InitFiles /\ [][NextProcess]_vars

(***************************************************************************)
(* The expansion of one command in build_package / install_package.        *)
(* Commands, names and values are sequences of characters.                 *)
(***************************************************************************)
MaxTokens == 2

\* str.replace(old, new): every non-overlapping occurrence, from the left
RECURSIVE Replace(_, _, _)
Replace(text, old, new) ==
    IF Len(text) < Len(old) THEN text
    ELSE IF SubSeq(text, 1, Len(old)) = old
         THEN new \o Replace(SubSeq(text, Len(old) + 1, Len(text)), old, new)
         ELSE <<Head(text)>> \o Replace(Tail(text), old, new)

\* f'$ENV{{{key}}}', f'${{{key}}}' and f'${key}'
EnvForm(key) == <<"$", "E", "N", "V", "{">> \o key \o <<"}">>
BraceForm(key) == <<"$", "{">> \o key \o <<"}">>
PlainForm(key) == <<"$">> \o key

\* the three replace calls of one iteration of "for key, value in full_env.items()"
ExpandWith(command, key, value) ==
    Replace(Replace(Replace(command, EnvForm(key), value), BraceForm(key), value),
            PlainForm(key), value)

\* one iteration of the loop over full_env.items()
ExpandKey ==
    /\ expand_pc = "loop"
    /\ key_idx <= Len(full_env)
    /\ expanded_command' = ExpandWith(expanded_command, full_env[key_idx][1], full_env[key_idx][2])
    /\ key_idx' = key_idx + 1
    /\ UNCHANGED <<expand_pc, full_env, build_command>>
    /\ UNCHANGED <<init_vars, input_vars, run_vars, name_vars, parse_vars>>

\* the loop is over: subprocess.run(expanded_command, ...)
RunExpanded ==
    /\ expand_pc = "loop"
    /\ key_idx > Len(full_env)
    /\ expand_pc' = "run"
    /\ UNCHANGED <<full_env, build_command, key_idx, expanded_command>>
    /\ UNCHANGED <<init_vars, input_vars, run_vars, name_vars, parse_vars>>

NextExpand == ExpandKey \/ RunExpanded

\* The variable names and values of the commands and environments.
FOO == <<"F", "O", "O">>
FOOBAR == FOO \o <<"B", "A", "R">>
VarNames == {FOO, FOOBAR}
VarValues == {<<"b", "a", "r">>, <<"1">>, PlainForm(FOO)}

\* A token of a command: a reference to a variable in one of the three forms.
Tokens == [form : {"env", "brace", "plain"}, name : VarNames]

TokenText(token) ==
    IF token.form = "env" THEN EnvForm(token.name)
    ELSE IF token.form = "brace" THEN BraceForm(token.name)
    ELSE PlainForm(token.name)

\* The command "echo" followed by the tokens, each after a blank.
RECURSIVE CommandText(_)
CommandText(tokens) ==
    IF tokens = <<>> THEN <<"e", "c", "h", "o">>
    ELSE CommandText(SubSeq(tokens, 1, Len(tokens) - 1)) \o <<" ">> \o TokenText(tokens[Len(tokens)])

\* "echo $ENV{FOO} ${FOO} $FOO"
EchoFoo == <<[form |-> "env", name |-> FOO], [form |-> "brace", name |-> FOO],
             [form |-> "plain", name |-> FOO]>>

\* The environments: every order of every subset of the names, with every value.
Environments ==
    {e \in SeqsUpTo(VarNames \X VarValues, Cardinality(VarNames)) :
        \A i, j \in 1..Len(e) : i # j => e[i][1] # e[j][1]}

\* init_packages.py and process_packages.py are not running.
InitIdle ==
    /\ packages_data = <<>>
    /\ init_pc = "idle"
    /\ in_degree = <<>>
    /\ graph = <<>>
    /\ queue = <<>>
    /\ result = <<>>
    /\ resolve_file = NoFile
    /\ init_error = NoError
    /\ init_exit = "running"

InitExpand ==
    /\ InitIdle
    /\ ProcessIdle
    /\ NameIdle
    /\ ParseIdle
    /\ manifest = ManifestOf(packages_data)
    /\ full_env \in Environments
    /\ build_command \in SeqsUpTo(Tokens, MaxTokens) \cup {EchoFoo}
    /\ expanded_command = CommandText(build_command)
    /\ key_idx = 1
    /\ expand_pc = "loop"

SpecExpand == InitExpand /\ [][NextExpand]_vars

(***************************************************************************)
(* Runs of process_packages.py with single-valued and multi-valued         *)
(* --env arguments, on the resolve file of the manifest of A and B.        *)
(***************************************************************************)
MaxKeys == 2

\* The --env arguments as parse_env_args returns them: one single-valued key,
\* one multi-valued key and one multi-valued key that contains BUILD_TYPE;
\* lists may be empty and may repeat a value.
OverrideEntries ==
    {[name |-> "A", is_list |-> FALSE, value |-> "1"]}
    \cup {[name |-> "B", is_list |-> TRUE, values |-> v] : v \in SeqsUpTo({"x", "y"}, MaxValues)}
    \cup {[name |-> "CMAKE_BUILD_TYPE", is_list |-> TRUE, values |-> v] :
            v \in SeqsUpTo({"Debug", "Release", "Custom"}, MaxValues)}

Overrides ==
    {o \in SeqsUpTo(OverrideEntries, MaxKeys) :
        \A i, j \in 1..Len(o) : i # j => o[i].name # o[j].name}

InitCombos ==
    /\ \E pd \in EnvManifests : Resolved(pd)
    /\ os_environ = InheritedEnvironment
    /\ package_filter = {}
    /\ include_dependencies = TRUE
    /\ stage = "build_and_install"
    /\ extra_env_vars \in Overrides
    /\ ProcessStart

SpecCombos == InitCombos /\ [][NextProcess]_vars

(***************************************************************************)
(* generate_package_resolve_file: the names of the folder variables of a   *)
(* package, computed character by character from the repository name.      *)
(***************************************************************************)
MaxParts == 3

\* str.upper() on the characters of the model
UpperChar(c) ==
    CASE c = "r" -> "R" [] c = "i" -> "I" [] c = "e" -> "E" [] c = "o" -> "O"
      [] c = "n" -> "N" [] c = "g" -> "G" [] c = "x" -> "X" [] OTHER -> c

Upper(text) == [i \in 1..Len(text) |-> UpperChar(text[i])]

ARIEO_PACKAGE_ == <<"A", "R", "I", "E", "O", "_", "P", "A", "C", "K", "A", "G", "E", "_">>
ARIEOENGINE_ == <<"A", "R", "I", "E", "O", "E", "N", "G", "I", "N", "E", "_">>
ARIEO_ == <<"A", "R", "I", "E", "O", "_">>

\* The base name with '-' left as it is.
BaseEnvVarNameKeepingDashes(pkg_name) ==
    ARIEO_PACKAGE_ \o Replace(Replace(Upper(pkg_name), ARIEOENGINE_, <<>>), ARIEO_, <<>>)

\* 'ARIEO_PACKAGE_' + pkg_name.upper().replace('-', '_')
\*                            .replace('ARIEOENGINE_', '').replace('ARIEO_', '')
BaseEnvVarNameChars(pkg_name) ==
    ARIEO_PACKAGE_ \o Replace(Replace(Replace(Upper(pkg_name), <<"-">>, <<"_">>),
                                      ARIEOENGINE_, <<>>),
                              ARIEO_, <<>>)

INSTALL_FOLDER_ == <<"_", "I", "N", "S", "T", "A", "L", "L", "_", "F", "O", "L", "D", "E", "R">>
SOURCE_FOLDER_ == <<"_", "S", "O", "U", "R", "C", "E", "_", "F", "O", "L", "D", "E", "R">>
BUILD_FOLDER_ == <<"_", "B", "U", "I", "L", "D", "_", "F", "O", "L", "D", "E", "R">>

\* the names of the first three entries of "environment_variables"
FolderVariableNames(base) ==
    [install |-> base \o INSTALL_FOLDER_,
     source |-> base \o SOURCE_FOLDER_,
     build |-> base \o BUILD_FOLDER_]

\* base_env_var_name = ...
ComputeBaseEnvVarName ==
    /\ name_pc = "start"
    /\ base_env_var_name' = BaseEnvVarNameChars(pkg_name_chars)
    /\ name_pc' = "done"
    /\ UNCHANGED <<pkg_name_chars, names_todo, public_names>>
    /\ UNCHANGED <<init_vars, input_vars, run_vars, expand_vars, parse_vars>>

\* The pieces of which the repository names of the model are made.
NameParts ==
    {<<"A", "r", "i", "e", "o">>,
     <<"A", "r", "i", "e", "o", "E", "n", "g", "i", "n", "e">>,
     <<"-">>, <<"_">>, <<"x">>, <<"B">>}

PkgNames == {Flatten(parts) : parts \in SeqsUpTo(NameParts, MaxParts)} \ {<<>>}

InitNames ==
    /\ InitIdle
    /\ ProcessIdle
    /\ ExpandIdle
    /\ manifest = ManifestOf(packages_data)
    /\ ParseIdle
    /\ name_pc = "start"
    /\ pkg_name_chars \in PkgNames
    /\ base_env_var_name = <<>>
    /\ names_todo = <<>>
    /\ public_names = <<>>

NextNames == ComputeBaseEnvVarName

SpecNames == InitNames /\ [][NextNames]_vars

(***************************************************************************)
(* generate_package_resolve_file: the loop over install_order, for the     *)
(* names of the public install-folder variables of a plan of two packages. *)
(***************************************************************************)
MaxPlanParts == 3

\* one iteration of "for idx, pkg_name in enumerate(install_order, 1)": the
\* name of the entry's public variable
EmitPackageEntry ==
    /\ name_pc = "loop"
    /\ names_todo # <<>>
    /\ pkg_name_chars' = Head(names_todo)
    /\ base_env_var_name' = BaseEnvVarNameChars(Head(names_todo))
    /\ public_names' = Append(public_names,
                              FolderVariableNames(BaseEnvVarNameChars(Head(names_todo))).install)
    /\ names_todo' = Tail(names_todo)
    /\ UNCHANGED name_pc
    /\ UNCHANGED <<init_vars, input_vars, run_vars, expand_vars, parse_vars>>

\* the loop is over
EndOfEntries ==
    /\ name_pc = "loop"
    /\ names_todo = <<>>
    /\ name_pc' = "done"
    /\ UNCHANGED <<pkg_name_chars, base_env_var_name, names_todo, public_names>>
    /\ UNCHANGED <<init_vars, input_vars, run_vars, expand_vars, parse_vars>>

\* The repository names of the plans: packages_data is a dict, so the names
\* of one plan differ.
PlanNames == {Flatten(parts) : parts \in SeqsUpTo(NameParts, MaxPlanParts)} \ {<<>>}

InitPlanNames ==
    /\ InitIdle
    /\ ProcessIdle
    /\ ExpandIdle
    /\ manifest = ManifestOf(packages_data)
    /\ ParseIdle
    /\ name_pc = "loop"
    /\ pkg_name_chars = <<>>
    /\ base_env_var_name = <<>>
    /\ names_todo \in {pair \in PlanNames \X PlanNames : pair[1] # pair[2]}
    /\ public_names = <<>>

NextPlanNames == EmitPackageEntry \/ EndOfEntries

SpecPlanNames == InitPlanNames /\ [][NextPlanNames]_vars

(***************************************************************************)
(* parse_env_args: the --env{NAME}=value arguments of the command line,    *)
(* each given by the two groups of env_pattern, the value character by     *)
(* character.                                                              *)
(***************************************************************************)
MaxChars == 2
MaxRepeat == 2

\* str.strip() for the characters of the model: the blanks at both ends go
RECURSIVE LStrip(_)
LStrip(text) == IF text # <<>> /\ Head(text) = " " THEN LStrip(Tail(text)) ELSE text

RECURSIVE RStrip(_)
RStrip(text) ==
    IF text # <<>> /\ text[Len(text)] = " " THEN RStrip(SubSeq(text, 1, Len(text) - 1)) ELSE text

Strip(text) == RStrip(LStrip(text))

\* array_content.split(','): the pieces between the commas, empty ones included
RECURSIVE SplitFrom(_, _)
SplitFrom(piece, text) ==
    IF text = <<>> THEN <<piece>>
    ELSE IF Head(text) = "," THEN <<piece>> \o SplitFrom(<<>>, Tail(text))
    ELSE SplitFrom(Append(piece, Head(text)), Tail(text))

Split(text) == SplitFrom(<<>>, text)

\* var_value.startswith('[') and var_value.endswith(']')
IsArray(var_value) ==
    var_value # <<>> /\ Head(var_value) = "[" /\ var_value[Len(var_value)] = "]"

\* the array branch: env_vars[var_name] = values, or [] for an empty content
ArrayValues(var_value) ==
    LET array_content == Strip(SubSeq(var_value, 2, Len(var_value) - 1))
    IN  IF array_content # <<>>
        THEN LET pieces == Split(array_content)
             IN  [i \in 1..Len(pieces) |-> Strip(pieces[i])]
        ELSE <<>>

\* The repeated-key branch in which a repeated key keeps its last value only.
RepeatedKeyLastWins(old, var_value) ==
    [name |-> old.name, is_list |-> FALSE, value |-> var_value]

\* the repeated-key branch: a string becomes a list of one, then the value is appended
RepeatedKey(old, var_value) ==
    [name |-> old.name, is_list |-> TRUE,
     values |-> Append(IF old.is_list THEN old.values ELSE <<old.value>>, var_value)]

\* the body of "for arg in args" for an argument that env_pattern matches
ParseArg(env_vars, arg) ==
    LET var_name == arg.name
        var_value == Strip(arg.value)
    IN  IF IsArray(var_value)
        THEN DictPut(env_vars, [name |-> var_name, is_list |-> TRUE,
                                values |-> ArrayValues(var_value)])
        ELSE IF var_name \in DictKeys(env_vars)
             THEN DictPut(env_vars, RepeatedKey(DictGet(env_vars, var_name), var_value))
             ELSE DictPut(env_vars, [name |-> var_name, is_list |-> FALSE, value |-> var_value])

RECURSIVE ParseArgsFrom(_, _)
ParseArgsFrom(env_vars, rest) ==
    IF rest = <<>> THEN env_vars
    ELSE ParseArgsFrom(ParseArg(env_vars, Head(rest)), Tail(rest))

\* parse_env_args
ParseEnvArgs ==
    /\ parse_pc = "start"
    /\ parsed_env_vars' = ParseArgsFrom(<<>>, args)
    /\ parse_pc' = "done"
    /\ UNCHANGED <<args, init_vars, input_vars, run_vars, expand_vars, name_vars>>

\* The values of the model: up to MaxChars characters, blanks included.
ArgValues == SeqsUpTo({"x", " "}, MaxChars)

\* The lists v1..vn of the model, n >= 2.
ValueLists == UNION {[1..n -> ArgValues] : n \in 2..MaxRepeat}

\* --env{NAME}=v1 ... --env{NAME}=vn
RepetitionSyntax(var_name, values) ==
    [i \in 1..Len(values) |-> [name |-> var_name, value |-> values[i]]]

RECURSIVE Joined(_)
Joined(values) ==
    IF Len(values) = 1 THEN values[1] ELSE Head(values) \o <<",">> \o Joined(Tail(values))

\* --env{NAME}=[v1,...,vn]
BracketSyntax(var_name, values) ==
    <<[name |-> var_name, value |-> <<"[">> \o Joined(values) \o <<"]">>]>>

\* --env{M}=z, an argument for another variable
OtherArg == [name |-> "M", value |-> <<"z">>]

\* The command lines of the model: NAME in one of the two syntaxes, alone or
\* with the argument for M before it, after it or after its first value.
CommandLines(values) ==
    LET rep == RepetitionSyntax("NAME", values)
        bra == BracketSyntax("NAME", values)
    IN  {rep, bra, <<OtherArg>> \o rep, <<OtherArg>> \o bra,
         Append(rep, OtherArg), Append(bra, OtherArg),
         <<rep[1], OtherArg>> \o Tail(rep)}

InitArgs ==
    /\ InitIdle
    /\ ProcessIdle
    /\ ExpandIdle
    /\ NameIdle
    /\ manifest = ManifestOf(packages_data)
    /\ parse_pc = "start"
    /\ \E values \in ValueLists : args \in CommandLines(values)
    /\ parsed_env_vars = <<>>

NextArgs == ParseEnvArgs

SpecArgs == InitArgs /\ [][NextArgs]_vars

(***************************************************************************)
(* Vocabulary of the properties of init_packages.py.                       *)
(***************************************************************************)
\* The known packages that package k references.
KnownDeps(pd, k) ==
    {DepName(DepPackages(Info(pd, k))[j].git_url) : j \in 1..Len(DepPackages(Info(pd, k)))}
        \cap Keys(pd)

\* The known packages that k depends on through one or more references.
RECURSIVE DepClosure(_, _, _)
DepClosure(pd, S, n) ==
    IF n = 0 THEN S
    ELSE DepClosure(pd, S \cup UNION {KnownDeps(pd, x) : x \in S}, n - 1)

TransitiveDeps(pd, k) == DepClosure(pd, KnownDeps(pd, k), Len(pd))

HasCycle(pd) == \E k \in Keys(pd) : k \in TransitiveDeps(pd, k)

\* Two different dependents declare the same dependency name with different tags.
DeclaredTagConflict(pd) ==
    \E p, q \in Keys(pd) :
        /\ p # q
        /\ \E i \in 1..Len(DepPackages(Info(pd, p))), j \in 1..Len(DepPackages(Info(pd, q))) :
              /\ DepName(DepPackages(Info(pd, p))[i].git_url) = DepName(DepPackages(Info(pd, q))[j].git_url)
              /\ DepPackages(Info(pd, p))[i].tag # DepPackages(Info(pd, q))[j].tag

InitFinished == init_pc \in {"done", "exit"}

(***************************************************************************)
(* Runs of init_packages.py from the manifest on: the manifest may be      *)
(* missing, an arieo_package.json may be missing or unreadable, and an     *)
(* arieo_package.json may declare a name other than its repository's.      *)
(***************************************************************************)
\* A package depends on nothing or on one repository at one tag.
FewDepLists == {<<>>} \cup {<<ref>> : ref \in DepRefs}

\* The arieo_package.json files a repository can hold.
Documents(repo) ==
    {[name |-> n, dependencies |-> d,
      build_commands |-> BuildCommandsOf(repo), install_commands |-> InstallCommandsOf(repo)] :
        n \in DeclaredNames(repo), d \in FewDepLists}

\* The manifests of the first n repositories in which at most one
\* arieo_package.json is missing or unreadable.
Manifests ==
    UNION {{[exists |-> TRUE, packages |-> [i \in 1..n |-> [repo |-> RepoOrder[i], file |-> files[i]]]] :
               files \in {f \in [1..n -> UNION {Documents(r) : r \in Repos} \cup {Missing, Corrupt}] :
                             /\ \A i \in 1..n : f[i] \in Documents(RepoOrder[i]) \cup {Missing, Corrupt}
                             /\ Cardinality({i \in 1..n : f[i] \in {Missing, Corrupt}}) <= 1}} :
           n \in 0..Len(RepoOrder)}

InitManifest ==
    /\ manifest \in Manifests \cup {NoManifest}
    /\ packages_data = <<>>
    /\ init_pc = "load_manifest"
    /\ in_degree = <<>>
    /\ graph = <<>>
    /\ queue = <<>>
    /\ result = <<>>
    /\ resolve_file = NoFile
    /\ init_error = NoError
    /\ init_exit = "running"
    /\ ProcessIdle
    /\ ExpandIdle
    /\ NameIdle
    /\ ParseIdle

NextManifest ==
    \/ LoadManifest
    \/ DownloadPackages
    \/ NextResolve

SpecManifest == InitManifest /\ [][NextManifest]_vars

C2_CycleErrorAlways ==
    (InitFinished /\ HasCycle(packages_data)) => init_error.kind = "cycle"

\* C2 amended: with a cycle among the known references no order is returned and
\* no resolve file is written; the run exits 1, with the conflict error when
\* check_dependency_conflicts finds a tag conflict first, and with the
\* circular-dependency error otherwise.
C2_CycleFailsWithoutEmission ==
    HasCycle(packages_data) =>
        /\ init_pc \notin {"generate", "done"}
        /\ resolve_file = NoFile
        /\ InitFinished =>
              /\ init_exit = 1
              /\ init_error.kind = (IF Conflicts(packages_data) = {} THEN "cycle" ELSE "conflict")

\* The run ended with the circular-dependency error for a package that
\* references itself.
C2_Witness ==
    /\ init_pc = "exit"
    /\ init_error.kind = "cycle"
    /\ \E k \in Keys(packages_data) : k \in KnownDeps(packages_data, k)

\* C3 as stated: whenever two dependents declare different tags for the same
\* dependency name, the run ends with the conflict error before any order is
\* computed, and the error holds every declared (dependent, tag) pair of each
\* conflicting dependency.
C3_ConflictAlwaysReported ==
    (init_pc # "start" /\ DeclaredTagConflict(packages_data)) =>
        /\ init_pc = "exit"
        /\ init_error.kind = "conflict"
        /\ result = <<>>
        /\ resolve_file = NoFile
        /\ \E d \in DOMAIN init_error.conflicts :
              \E p, q \in DOMAIN init_error.conflicts[d] :
                  init_error.conflicts[d][p] # init_error.conflicts[d][q]
        /\ \A d \in DOMAIN init_error.conflicts :
              \A k \in Keys(packages_data) :
                  d \in {DepName(DepPackages(Info(packages_data, k))[j].git_url) :
                            j \in 1..Len(DepPackages(Info(packages_data, k)))}
                      => /\ k \in DOMAIN init_error.conflicts[d]
                         /\ \E j \in 1..Len(DepPackages(Info(packages_data, k))) :
                               /\ DepName(DepPackages(Info(packages_data, k))[j].git_url) = d
                               /\ DepPackages(Info(packages_data, k))[j].tag = init_error.conflicts[d][k]


(***************************************************************************)
(* Vocabulary of the properties of process_packages.py.                    *)
(***************************************************************************)
PlanKeys == {resolve_file.packages[i].name : i \in 1..Len(resolve_file.packages)}

PlanEntry(name) ==
    resolve_file.packages[CHOOSE i \in 1..Len(resolve_file.packages) :
                            resolve_file.packages[i].name = name]

\* The packages of the plan that the dependencies field of package `name` names.
PlanDeps(name) ==
    {PlanEntry(name).dependencies[j].name : j \in 1..Len(PlanEntry(name).dependencies)}
        \cap PlanKeys

ClosedUnderPlanDeps(S) == \A p \in S : PlanDeps(p) \subseteq S

\* The least set of plan packages that contains F and is closed under the
\* dependencies field.
LeastClosedSet(F) ==
    CHOOSE S \in SUBSET PlanKeys :
        /\ F \subseteq S
        /\ ClosedUnderPlanDeps(S)
        /\ \A T \in SUBSET PlanKeys : (F \subseteq T /\ ClosedUnderPlanDeps(T)) => S \subseteq T

\* The set of packages a run with the given arguments is to execute.
FilteredSet ==
    IF package_filter = {} THEN PlanKeys
    ELSE IF include_dependencies THEN LeastClosedSet(package_filter)
    ELSE package_filter

\* The run is past prepare_process_packages and inside a combination.
InCombination ==
    proc_pc \in {"package", "build_package", "build_commands", "install_package", "install_commands"}

\* The commands of one stage in the arieo_package.json of a plan package.
StageCommands(name, stage_name) ==
    IF stage_name = "build" THEN arieo_package_json[PlanEntry(name).source_folder].build_commands
    ELSE arieo_package_json[PlanEntry(name).source_folder].install_commands

(***************************************************************************)
(* Properties of process_packages.py, checked under SpecRun.               *)
(***************************************************************************)
\* C4: fail-fast. Only the last command executed so far can have returned a
\* non-zero status, and once it has the run is over with exit code 1: no later
\* command of the stage, the package, the combination or the run is executed.
C4_FailFast ==
    /\ \A i \in 1..Len(executed) : executed[i].returncode # 0 => i = Len(executed)
    /\ (executed # <<>> /\ executed[Len(executed)].returncode # 0)
          => (proc_pc = "exit" /\ proc_exit = 1)
    /\ proc_pc = "done" => \A i \in 1..Len(executed) : executed[i].returncode = 0

\* Under build_and_install with two combinations and the order C, A, B, the
\* first build command of A failed in the first combination: C was processed,
\* and A's second build command, A's install command, B and the second
\* combination were never run.
C4_Witness ==
    /\ proc_pc = "exit"
    /\ executed # <<>>
    /\ stage = "build_and_install"
    /\ Len(prepare_data.env_combinations) = 2
    /\ install_order = <<"C", "A", "B">>
    /\ Len(executed) = Len(InstallCommandsOf("C")) + 1
    /\ executed[Len(executed)].package = "A"
    /\ executed[Len(executed)].stage = "build"
    /\ executed[Len(executed)].index = 1
    /\ executed[Len(executed)].combo = 1
    /\ executed[Len(executed)].returncode # 0
    /\ Len(BuildCommandsOf("A")) > 1

\* C5 as stated: within a combination every command of a dependency precedes
\* every command of a package that names it in its dependencies field, and for
\* one package no build command follows one of its install commands.
C5_DependencyCompletesFirst ==
    \A i, j \in 1..Len(executed) :
        executed[i].combo = executed[j].combo =>
            /\ (executed[j].package # executed[i].package
                    /\ executed[j].package \in PlanDeps(executed[i].package)) => j < i
            /\ (executed[i].package = executed[j].package
                    /\ executed[i].stage = "build" /\ executed[j].stage = "install") => i < j

\* C6: under build_and_install, when a command of the package at position p of
\* the order is run, every build command and every install command of each
\* package at an earlier position has been run in this combination; and the
\* commands of one package are run builds first.
C6_BuildAndInstallBackToBack ==
    stage = "build_and_install" =>
        \A j \in 1..Len(executed) :
            /\ \A q \in 1..(executed[j].position - 1) :
                  \A st \in {"build", "install"} :
                     \A c \in 1..Len(StageCommands(install_order[q], st)) :
                        \E i \in 1..(j - 1) :
                            /\ executed[i].combo = executed[j].combo
                            /\ executed[i].position = q
                            /\ executed[i].stage = st
                            /\ executed[i].index = c
            /\ \A i \in 1..(j - 1) :
                  (executed[i].combo = executed[j].combo
                        /\ executed[i].position = executed[j].position
                        /\ executed[i].stage = "install") => executed[j].stage = "install"

\* An install command of one package was run before a build command of the
\* next package of the same combination.
C6_Witness ==
    /\ stage = "build_and_install"
    /\ \E i, j \in 1..Len(executed) :
          /\ i < j
          /\ executed[i].combo = executed[j].combo
          /\ executed[i].position + 1 = executed[j].position
          /\ executed[i].stage = "install"
          /\ executed[j].stage = "build"

\* C7: with a package filter, the packages a combination processes are the
\* least set of plan packages that contains the filter and is closed under the
\* dependencies field when dependencies are included, and the filter itself
\* when they are not; no command of another package is run.
C7_ExecutedSetIsClosure ==
    (package_filter # {} /\ proc_pc \notin {"start", "exit"}) =>
        /\ Range(prepare_data.install_order) =
              (IF include_dependencies THEN LeastClosedSet(package_filter) ELSE package_filter)
        /\ InCombination =>
              Range(install_order) =
                 (IF include_dependencies THEN LeastClosedSet(package_filter) ELSE package_filter)
        /\ \A i \in 1..Len(executed) :
              executed[i].package \in
                 (IF include_dependencies THEN LeastClosedSet(package_filter) ELSE package_filter)

\* A run filtered to {B} with dependencies included processed B, its dependency
\* A and A's dependency C, and ended.
C7_Witness ==
    /\ proc_pc = "done"
    /\ package_filter = {"B"}
    /\ include_dependencies
    /\ PlanDeps("B") = {"A"}
    /\ PlanDeps("A") = {"C"}
    /\ {executed[i].package : i \in 1..Len(executed)} = {"A", "B", "C"}

\* C8: when the filter names a package that the plan does not hold, the run
\* ends with exit code 1 before any command is executed, and the error holds
\* every missing name and every name of the plan.
C8_UnknownPackageFails ==
    (proc_pc # "start" /\ resolve_file.exists
        /\ \E n \in package_filter : \A i \in 1..Len(resolve_file.packages) :
                resolve_file.packages[i].name # n)
    => /\ proc_pc = "exit"
       /\ proc_exit = 1
       /\ executed = <<>>
       /\ proc_error.kind = "unknown_package"
       /\ proc_error.missing = package_filter \ PlanKeys
       /\ proc_error.available = PlanKeys

\* The filter named a package of the plan and one that is not in it.
C8_Witness ==
    /\ proc_pc = "exit"
    /\ proc_error.kind = "unknown_package"
    /\ package_filter \cap PlanKeys # {}
    /\ Cardinality(proc_error.missing) = 1

\* C9 as stated: the packages a combination processes, in order, are the
\* install_order of the resolve file restricted to the filtered set.
C9_PersistedOrderKept ==
    InCombination =>
        install_order = SelectSeq(resolve_file.install_order, LAMBDA n : n \in FilteredSet)


(***************************************************************************)
(* Properties of the environment of the commands, checked under SpecEnv.   *)
(***************************************************************************)
RootDecls == {resolve_file.environment_variables[i] : i \in 1..Len(resolve_file.environment_variables)}

DeclsOf(name) ==
    {PlanEntry(name).environment_variables[i] : i \in 1..Len(PlanEntry(name).environment_variables)}

OverrideNames == {extra_env_vars[i].name : i \in 1..Len(extra_env_vars)}

\* The resolve file declares `var` public with value `pub` and package P
\* declares it private with value `priv`; nothing else declares `var` and the
\* command line does not set it.
PublicAndPrivate(P, var, pub, priv) ==
    /\ \E d \in RootDecls \cup UNION {DeclsOf(n) : n \in PlanKeys} :
          d.name = var /\ d.type = "public" /\ d.value = pub
    /\ \E d \in DeclsOf(P) : d.name = var /\ d.type = "private" /\ d.value = priv
    /\ \A d \in RootDecls : d.name = var => (d.type = "public" /\ d.value = pub)
    /\ \A n \in PlanKeys : \A d \in DeclsOf(n) :
          d.name = var => \/ d.type = "public" /\ d.value = pub
                          \/ d.type = "private" /\ d.value = priv /\ n = P
    /\ var \notin OverrideNames

\* A source other than the private declarations of P gives the variable to
\* the commands of package Q.
GivenElsewhere(var, P, Q) ==
    \/ var \in DOMAIN os_environ
    \/ var \in OverrideNames
    \/ var \in {"SOURCE_FOLDER", "BUILD_FOLDER", "INSTALL_FOLDER", "ARIEO_BUILDENV_BUILD_FOLDER"}
    \/ \E d \in RootDecls : d.name = var
    \/ \E n \in PlanKeys : \E d \in DeclsOf(n) : d.name = var /\ (d.type = "public" \/ n = Q)

\* C10: when the resolve file declares X=1 public and only package P declares
\* X=2 private (and the command line sets no X), every command of P runs
\* with X=2 and every command of another package with X=1; and a variable
\* that only private declarations of P give is in the environment of no
\* command of another package.
C10_PrivateWinsAndStaysPrivate ==
    \A i \in 1..Len(executed) :
        /\ \A P \in PlanKeys :
              PublicAndPrivate(P, "X", "1", "2") =>
                 /\ "X" \in DOMAIN executed[i].env
                 /\ executed[i].env["X"] = (IF executed[i].package = P THEN "2" ELSE "1")
        /\ \A P \in PlanKeys \ {executed[i].package} :
              \A d \in DeclsOf(P) :
                 (d.type = "private" /\ ~GivenElsewhere(d.name, P, executed[i].package))
                    => d.name \notin DOMAIN executed[i].env

\* A run in which B declares X=2 and S=2 private and the resolve file X=1
\* public: a command of B ran with X=2 and S=2, and a command of A in the
\* same run with X=1 and without S.
C10_Witness ==
    /\ PublicAndPrivate("B", "X", "1", "2")
    /\ \E d \in DeclsOf("B") : d.name = "S" /\ d.type = "private"
    /\ \E i, j \in 1..Len(executed) :
          /\ executed[i].package = "B"
          /\ executed[i].env["X"] = "2"
          /\ executed[i].env["S"] = "2"
          /\ executed[j].package = "A"
          /\ executed[j].env["X"] = "1"
          /\ "S" \notin DOMAIN executed[j].env


\* The values the layers of the environment give to a variable for package P
\* in the combination `combo` of the run.
InheritedValues(var) == IF var \in DOMAIN os_environ THEN {os_environ[var]} ELSE {}

PublicValues(var) ==
    {d.value : d \in {x \in RootDecls \cup UNION {DeclsOf(n) : n \in PlanKeys} :
                         x.name = var /\ x.type = "public"}}

OverrideValues(var, combo) ==
    IF var \in DOMAIN prepare_data.env_combinations[combo]
    THEN {prepare_data.env_combinations[combo][var]} ELSE {}

PrivateValues(var, P) ==
    {d.value : d \in {x \in DeclsOf(P) : x.name = var /\ x.type = "private"}}

\* The values of the highest layer that defines the variable.
HighestLayerValues(var, P, combo) ==
    IF PrivateValues(var, P) # {} THEN PrivateValues(var, P)
    ELSE IF OverrideValues(var, combo) # {} THEN OverrideValues(var, combo)
    ELSE IF PublicValues(var) # {} THEN PublicValues(var)
    ELSE InheritedValues(var)

\* C11 as stated: in the environment of every executed command, every
\* variable that a layer defines has a value of the highest layer defining it
\* (inherited < public < overrides of the combination < private of the
\* package), and every override of the combination is in the environment.
C11_HighestLayerWins ==
    \A i \in 1..Len(executed) :
        /\ \A var \in DOMAIN executed[i].env :
              HighestLayerValues(var, executed[i].package, executed[i].combo) # {}
                 => executed[i].env[var]
                       \in HighestLayerValues(var, executed[i].package, executed[i].combo)
        /\ \A var \in DOMAIN prepare_data.env_combinations[executed[i].combo] :
              var \in DOMAIN executed[i].env


\* The last position of a plan package in the install_order of the resolve file.
LastPosition(name) ==
    Max({i \in 1..Len(resolve_file.install_order) : resolve_file.install_order[i] = name})

\* The plan packages that declare the variable public.
PublicDeclarers(var) ==
    {n \in PlanKeys : \E d \in DeclsOf(n) : d.name = var /\ d.type = "public"}

\* The value the package `name` declares public for the variable.
PublicValueOf(name, var) ==
    (CHOOSE d \in DeclsOf(name) : d.name = var /\ d.type = "public").value

\* C12 as stated: in the environment of every executed command, a variable
\* that packages of the plan declare public (whether the filter keeps them or
\* not) has the value of the declaring package that is latest in install
\* order, and a variable that only the root declares has the root's value.
C12_PublicLayerInInstallOrder ==
    \A i \in 1..Len(executed) :
        IF PublicDeclarers("X") # {}
        THEN \E n \in PublicDeclarers("X") :
                /\ \A o \in PublicDeclarers("X") : LastPosition(o) <= LastPosition(n)
                /\ "X" \in DOMAIN executed[i].env
                /\ executed[i].env["X"] = PublicValueOf(n, "X")
        ELSE (\E d \in RootDecls : d.name = "X") =>
                /\ "X" \in DOMAIN executed[i].env
                /\ executed[i].env["X"] \in {d.value : d \in {x \in RootDecls : x.name = "X"}}


(***************************************************************************)
(* Properties of the command expansion, checked under SpecExpand.          *)
(***************************************************************************)
Defined(name) == \E i \in 1..Len(full_env) : full_env[i][1] = name

ValueOf(name) == full_env[CHOOSE i \in 1..Len(full_env) : full_env[i][1] = name][2]

\* The command in which each token of a defined variable is replaced by the
\* value of that variable and every other token is left as written.
RECURSIVE Substituted(_)
Substituted(tokens) ==
    IF tokens = <<>> THEN <<"e", "c", "h", "o">>
    ELSE Substituted(SubSeq(tokens, 1, Len(tokens) - 1)) \o <<" ">>
            \o (IF Defined(tokens[Len(tokens)].name) THEN ValueOf(tokens[Len(tokens)].name)
                ELSE TokenText(tokens[Len(tokens)]))

\* C13 as stated: a command whose tokens all name variables of the
\* environment is executed with every token replaced by the value of its
\* variable.
C13_DefinedTokensReplaced ==
    (expand_pc = "run" /\ \A i \in 1..Len(build_command) : Defined(build_command[i].name))
        => expanded_command = Substituted(build_command)

\* C14 as stated: a command whose tokens all name variables that the
\* environment does not define is executed exactly as written.
C14_UndefinedTokensKept ==
    (expand_pc = "run" /\ \A i \in 1..Len(build_command) : ~Defined(build_command[i].name))
        => expanded_command = CommandText(build_command)


(***************************************************************************)
(* Properties of generate_env_combinations, checked under SpecCombos.      *)
(***************************************************************************)
\* The multi-valued and the single-valued entries of the --env arguments.
MultiEntries == SelectSeq(extra_env_vars, LAMBDA e : e.is_list)
SingleEntries == SelectSeq(extra_env_vars, LAMBDA e : ~e.is_list)

\* The list with the values Release, RelWithDebInfo, Debug, MinSizeRel first,
\* in that order, and the other values after them in their original order.
PreferredFirst(values) ==
    SelectSeq(values, LAMBDA v : v = "Release") \o SelectSeq(values, LAMBDA v : v = "RelWithDebInfo")
    \o SelectSeq(values, LAMBDA v : v = "Debug") \o SelectSeq(values, LAMBDA v : v = "MinSizeRel")
    \o SelectSeq(values, LAMBDA v : v \notin {"Release", "RelWithDebInfo", "Debug", "MinSizeRel"})

\* The value list of a multi-valued entry as the product takes it.
ListOf(entry) ==
    IF entry.name \in {"BUILD_TYPE", "CMAKE_BUILD_TYPE"} THEN PreferredFirst(entry.values)
    ELSE entry.values

\* The product of the lengths of the lists of the entries from position i on.
RECURSIVE LengthProduct(_, _)
LengthProduct(entries, i) ==
    IF i > Len(entries) THEN 1 ELSE Len(ListOf(entries[i])) * LengthProduct(entries, i + 1)

\* The position in the list of entry i that combination c selects, the last
\* key varying fastest.
SelectionIndex(entries, i, c) ==
    (((c - 1) \div LengthProduct(entries, i + 1)) % Len(ListOf(entries[i]))) + 1

\* The run has computed its combinations.
Prepared == proc_pc \in {"process", "done"} \/ InCombination

\* C15 as stated: the combinations are, in order, one map per element of the
\* cartesian product of the value lists of the multi-valued entries, keys in
\* declared order and list order kept, each with every single-valued entry
\* and one selection per multi-valued key; without a multi-valued entry there
\* is exactly one map, that of the single-valued entries.
C15_CombinationsAreTheProduct ==
    Prepared =>
        LET combos == prepare_data.env_combinations
        IN  /\ Len(combos) = LengthProduct(MultiEntries, 1)
            /\ \A c \in 1..Len(combos) :
                  /\ DOMAIN combos[c] = {extra_env_vars[i].name : i \in 1..Len(extra_env_vars)}
                  /\ \A i \in 1..Len(SingleEntries) :
                        combos[c][SingleEntries[i].name] = SingleEntries[i].value
                  /\ \A i \in 1..Len(MultiEntries) :
                        combos[c][MultiEntries[i].name] =
                           ListOf(MultiEntries[i])[SelectionIndex(MultiEntries, i, c)]

\* C16 as stated: when one multi-valued key is given, the values its
\* combinations take are, in order, the supplied list when the key does not
\* contain BUILD_TYPE, and the supplied list with Release, RelWithDebInfo,
\* Debug, MinSizeRel moved to the front in that order when it does.
C16_BuildTypeReordered ==
    (Prepared /\ Len(MultiEntries) = 1) =>
        [c \in 1..Len(prepare_data.env_combinations) |->
            prepare_data.env_combinations[c][MultiEntries[1].name]]
        = (IF MultiEntries[1].name \in {"BUILD_TYPE", "CMAKE_BUILD_TYPE"}
           THEN PreferredFirst(MultiEntries[1].values) ELSE MultiEntries[1].values)

\* The product of the lengths of the supplied lists from position i on.
RECURSIVE SuppliedProduct(_, _)
SuppliedProduct(entries, i) ==
    IF i > Len(entries) THEN 1 ELSE Len(entries[i].values) * SuppliedProduct(entries, i + 1)

\* C17 as stated: the number of combinations is the product of the lengths of
\* the supplied lists, and a run in which no command fails has executed that
\* many combinations.
C17_CombinationCount ==
    /\ Prepared => Len(prepare_data.env_combinations) = SuppliedProduct(MultiEntries, 1)
    /\ proc_pc = "done" => combo_idx - 1 = SuppliedProduct(MultiEntries, 1)


(***************************************************************************)
(* The executions of a run as a function of its inputs: the resolve file,  *)
(* the arieo_package.json files, the inherited environment and the         *)
(* arguments.                                                              *)
(***************************************************************************)
PlannedCombinations ==
    IF extra_env_vars # <<>> THEN GenerateEnvCombinations(extra_env_vars) ELSE <<EmptyMap>>

PlannedOrder ==
    FilteredInstallOrder(resolve_file,
                         Range(FilteredInstallOrder(resolve_file, package_filter,
                                                    include_dependencies)),
                         FALSE)

PlannedStages ==
    IF stage = "build" THEN <<"build">>
    ELSE IF stage = "install" THEN <<"install">>
    ELSE <<"build", "install">>

PlannedCommands(name, stage_name) ==
    LET data == arieo_package_json[DictGet(resolve_file.packages, name).source_folder]
    IN  IF stage_name = "build" THEN data.build_commands ELSE data.install_commands

PlannedEnv(public_map, name) ==
    LET info == DictGet(resolve_file.packages, name)
        composed == SetupEnvironment(os_environ, info.source_folder, info.build_folder,
                        info.install_folder, PackageEnvVarsMap(public_map, info))
    IN  IF stage # "install" /\ PlannedCommands(name, "build") # <<>>
           /\ "ARIEO_CUR_PACKAGE_BUILD_FOLDER" \in DOMAIN composed
        THEN MapPut(composed, "ARIEO_BUILDENV_BUILD_FOLDER",
                    composed["ARIEO_CUR_PACKAGE_BUILD_FOLDER"])
        ELSE composed

PlannedPackage(c, p, name, public_map) ==
    LET stages == PlannedStages
        full_environment == MapUpdate(os_environ, PlannedEnv(public_map, name))
        folder == DictGet(resolve_file.packages, name).source_folder
    IN  Flatten([s \in 1..Len(stages) |->
            LET commands == PlannedCommands(name, stages[s])
            IN  [k \in 1..Len(commands) |->
                    [combo |-> c,
                     package |-> name,
                     position |-> p,
                     stage |-> stages[s],
                     index |-> k,
                     command |-> commands[k],
                     env |-> full_environment,
                     cwd |-> folder,
                     returncode |-> 0]]])

PlannedExecutions ==
    LET combinations == PlannedCombinations
        order == PlannedOrder
    IN  Flatten([c \in 1..Len(combinations) |->
            LET public_map == PublicEnvVarsMap(resolve_file, combinations[c])
            IN  Flatten([p \in 1..Len(order) |->
                    PlannedPackage(c, p, order[p], public_map)])])

InStage == {"build_commands", "install_commands"}

\* C19: outside the loops of build_package and install_package the working
\* directory is the one the run was started in: a stage that returns (its
\* list empty or every command successful) and a stage that ends the run (a
\* command failed or an exception was raised) leaves the working directory
\* it found, and the exit code 1 of a failure is set with the directory
\* already restored.
C19_WorkingDirectoryRestored ==
    /\ proc_pc \notin InStage => cwd = "/work"
    /\ proc_pc \in InStage => original_cwd = "/work"

\* An exception ended the run in the install stage of a package, after
\* commands of an earlier stage had run in another directory.
C19_Witness ==
    /\ proc_pc = "exit"
    /\ proc_error.kind = "exception"
    /\ proc_error.stage = "install"
    /\ executed # <<>>
    /\ executed[Len(executed)].cwd # cwd
    /\ executed[Len(executed)].stage = "build"

\* C20: a stage entered with an empty command list is left in the same step
\* with nothing executed, no error, no exit code, and the environment and
\* working directory untouched; what follows is install_package after an
\* empty build under build_and_install, and the next package otherwise.
C20_EmptyStageIsNoOp ==
    [][/\ (proc_pc = "build_package" /\ package_data.build_commands = <<>>)
            => /\ executed' = executed
               /\ proc_error' = proc_error /\ proc_exit' = proc_exit
               /\ env' = env /\ cwd' = cwd
               /\ IF stage = "build_and_install"
                  THEN proc_pc' = "install_package" /\ pkg_idx' = pkg_idx
                  ELSE proc_pc' = "package" /\ pkg_idx' = pkg_idx + 1
       /\ (proc_pc = "install_package" /\ package_data.install_commands = <<>>)
            => /\ executed' = executed
               /\ proc_error' = proc_error /\ proc_exit' = proc_exit
               /\ env' = env /\ cwd' = cwd
               /\ proc_pc' = "package" /\ pkg_idx' = pkg_idx + 1
      ]_vars

\* A build_and_install run ended with exit code 0 in which one package had
\* no build commands and another no install commands: each of them ran the
\* commands of its other stage only, and commands of a later package
\* followed.
C20_Witness ==
    /\ proc_pc = "done"
    /\ proc_exit = 0
    /\ stage = "build_and_install"
    /\ \E i, j \in 1..Len(executed) :
          /\ i < j
          /\ executed[i].combo = executed[j].combo
          /\ executed[i].position < executed[j].position
          /\ executed[i].stage = "install"
          /\ PlannedCommands(executed[i].package, "build") = <<>>
          /\ executed[j].stage = "build"
          /\ PlannedCommands(executed[j].package, "install") = <<>>


(***************************************************************************)
(* Properties of the whole run of process_packages.py, checked under       *)
(* SpecRun.                                                                *)
(***************************************************************************)
RequestedStages == Range(PlannedStages)

StageRank(stage_name) == IF stage_name = "build" THEN 1 ELSE 2

\* The first position of a name in the install_order of the resolve file.
PersistedPosition(name) == PositionIn(resolve_file.install_order, name)

\* The entries of the log for one command of one package in one combination.
RunsOf(c, name, stage_name, k) ==
    {i \in 1..Len(executed) :
        /\ executed[i].combo = c
        /\ executed[i].package = name
        /\ executed[i].stage = stage_name
        /\ executed[i].index = k}

\* Entry i of the log comes no later than entry j in the order combination,
\* package, stage, command.
InPlanOrder(i, j) ==
    LET a == executed[i]
        b == executed[j]
    IN  \/ a.combo < b.combo
        \/ /\ a.combo = b.combo
           /\ \/ PersistedPosition(a.package) < PersistedPosition(b.package)
              \/ /\ a.package = b.package
                 /\ \/ StageRank(a.stage) < StageRank(b.stage)
                    \/ a.stage = b.stage /\ a.index < b.index

\* C21 as stated: in a run that ended without a failing command, every
\* command of every requested stage of every package of the filtered set was
\* executed exactly once in every combination, nothing else was executed, and
\* the log is ordered by combination, then by the package's place in the
\* install_order of the resolve file, then by stage, then by the command's
\* place in its list.
C21_EachCommandOnceInOrder ==
    proc_pc = "done" =>
        /\ \A c \in 1..Len(PlannedCombinations) : \A name \in FilteredSet :
              \A st \in RequestedStages : \A k \in 1..Len(StageCommands(name, st)) :
                 /\ Cardinality(RunsOf(c, name, st, k)) = 1
                 /\ \A i \in RunsOf(c, name, st, k) :
                       executed[i].command = StageCommands(name, st)[k]
        /\ \A i \in 1..Len(executed) :
              /\ executed[i].combo \in 1..Len(PlannedCombinations)
              /\ executed[i].package \in FilteredSet
              /\ executed[i].stage \in RequestedStages
              /\ executed[i].index \in 1..Len(StageCommands(executed[i].package, executed[i].stage))
        /\ \A i, j \in 1..Len(executed) : i < j => InPlanOrder(i, j)

\* The names of the plan's packages are those of the install_order, once each.
UniquePlanNames ==
    /\ Len(resolve_file.install_order) = Cardinality(Range(resolve_file.install_order))
    /\ Len(resolve_file.install_order) = Len(resolve_file.packages)


(***************************************************************************)
(* Properties of the resolve file, checked under SpecManifest.             *)
(***************************************************************************)
\* init_packages.py ended with a resolve file written.
Emitted == init_pc = "done" /\ resolve_file.exists

\* C25 as stated: in an emitted resolve file the names of install_order are
\* the keys of packages, each name is in install_order once, and the entry of
\* the name at position i has build_index i.
C25_OrderAndKeysAgree ==
    Emitted =>
        /\ Range(resolve_file.install_order) = DictKeys(resolve_file.packages)
        /\ \A i, j \in 1..Len(resolve_file.install_order) :
              resolve_file.install_order[i] = resolve_file.install_order[j] => i = j
        /\ \A i \in 1..Len(resolve_file.install_order) :
              DictGet(resolve_file.packages, resolve_file.install_order[i]).build_index = i

MetadataUnreadable ==
    \E i \in 1..Len(manifest.packages) : manifest.packages[i].file \in {Missing, Corrupt}

\* C30 as stated, for init_packages.py: when an arieo_package.json of the
\* manifest's repositories is missing or unreadable, the run ends with a
\* non-zero exit code and no resolve file.
C30_UnreadableMetadataIsFatal ==
    (InitFinished /\ manifest.exists /\ MetadataUnreadable) =>
        /\ init_exit # 0
        /\ resolve_file = NoFile

\* The fatal errors of a resolution: no manifest, an arieo_package.json that
\* is missing or unreadable, different tags declared for one dependency, a
\* cycle among the known references.
FatalResolution ==
    \/ ~manifest.exists
    \/ MetadataUnreadable
    \/ LET pd == [i \in 1..Len(manifest.packages) |->
                    Downloaded(manifest.packages[i].repo, manifest.packages[i].file)]
       IN  DeclaredTagConflict(pd) \/ HasCycle(pd)

\* C22 as stated, for init_packages.py: the exit code is 0 exactly when the
\* invocation met no fatal error.
C22_ExitCodeTellsSuccess ==
    InitFinished => (init_exit = 0 <=> ~FatalResolution)


(***************************************************************************)
(* Properties of what process_packages.py reads, checked under SpecFiles.  *)
(***************************************************************************)
ProcessFinished == proc_pc \in {"done", "exit"}

\* The resolve file is not there, does not parse, or lacks install_order or
\* packages.
ResolveFileUnusable ==
    \/ resolve_file = NoFile
    \/ resolve_file = CorruptFile
    \/ "install_order" \notin DOMAIN resolve_file
    \/ "packages" \notin DOMAIN resolve_file

\* C23 as stated: with such a resolve file no command is executed and the
\* run ends with a non-zero exit code.
C23_UnusableResolveFileIsFatal ==
    (manifest.exists /\ ResolveFileUnusable) =>
        /\ executed = <<>>
        /\ ProcessFinished => proc_exit # 0

\* The commands the resolve file records for a package and a stage.
RecordedCommands(name, stage_name) ==
    IF stage_name = "build" THEN DictGet(resolve_file.packages, name).build_commands
    ELSE DictGet(resolve_file.packages, name).install_commands

\* C27 as stated: every command executed for a package in a stage is the
\* command at its place in the list the resolve file records for that
\* package and stage, and a run that ends with exit code 0 has executed the
\* whole of each recorded list of the requested stages.
C27_PlanCommandsAreRun ==
    /\ \A i \in 1..Len(executed) :
          /\ executed[i].index <= Len(RecordedCommands(executed[i].package, executed[i].stage))
          /\ executed[i].command = RecordedCommands(executed[i].package, executed[i].stage)[executed[i].index]
    /\ (proc_pc = "done" /\ ~ResolveFileUnusable) =>
          \A p \in 1..Len(install_order) : \A st \in RequestedStages :
             \A k \in 1..Len(RecordedCommands(install_order[p], st)) :
                \E i \in 1..Len(executed) :
                    /\ executed[i].position = p
                    /\ executed[i].stage = st
                    /\ executed[i].index = k


(***************************************************************************)
(* Properties of the error of a failing command, checked under SpecRun.    *)
(***************************************************************************)
\* C26 as stated: the error of a run that a failing command ended names the
\* package, the stage, the command text and the exit code of that command.
C26_FailureCarriesDetails ==
    proc_error.kind = "command_failed" =>
        LET failed == executed[Len(executed)]
        IN  /\ "stage" \in DOMAIN proc_error /\ proc_error.stage = failed.stage
            /\ "command" \in DOMAIN proc_error /\ proc_error.command = failed.command
            /\ "package" \in DOMAIN proc_error /\ proc_error.package = failed.package
            /\ "returncode" \in DOMAIN proc_error /\ proc_error.returncode = failed.returncode


(***************************************************************************)
(* The "current package" variables of a command, checked under SpecPublic. *)
(***************************************************************************)
\* C29: in the environment of every command executed for package P,
\* ARIEO_CUR_PACKAGE_NAME is the name of P's entry in the resolve file and
\* ARIEO_CUR_PACKAGE_SOURCE_FOLDER, ARIEO_CUR_PACKAGE_BUILD_FOLDER and
\* ARIEO_CUR_PACKAGE_INSTALL_FOLDER are the folders of that entry, whatever
\* the command line overrides and the other entries declare.
C29_CurrentPackageVariables ==
    \A i \in 1..Len(executed) :
        LET entry == PlanEntry(executed[i].package)
            e == executed[i].env
        IN  /\ {"ARIEO_CUR_PACKAGE_NAME", "ARIEO_CUR_PACKAGE_SOURCE_FOLDER",
                "ARIEO_CUR_PACKAGE_BUILD_FOLDER", "ARIEO_CUR_PACKAGE_INSTALL_FOLDER"}
                  \subseteq DOMAIN e
            /\ e["ARIEO_CUR_PACKAGE_NAME"] = entry.name
            /\ entry.name = executed[i].package
            /\ e["ARIEO_CUR_PACKAGE_SOURCE_FOLDER"] = entry.source_folder
            /\ e["ARIEO_CUR_PACKAGE_BUILD_FOLDER"] = entry.build_folder
            /\ e["ARIEO_CUR_PACKAGE_INSTALL_FOLDER"] = entry.install_folder

\* A run with ARIEO_CUR_PACKAGE_NAME=other on the command line in which
\* commands of two packages ran, each with its own name and source folder.
C29_Witness ==
    /\ CurNameOverride \in Range(extra_env_vars)
    /\ \E i, j \in 1..Len(executed) :
          /\ executed[i].package # executed[j].package
          /\ executed[i].env["ARIEO_CUR_PACKAGE_NAME"] = executed[i].package
          /\ executed[j].env["ARIEO_CUR_PACKAGE_NAME"] = executed[j].package
          /\ executed[i].env["ARIEO_CUR_PACKAGE_SOURCE_FOLDER"]
                # executed[j].env["ARIEO_CUR_PACKAGE_SOURCE_FOLDER"]

(***************************************************************************)
(* The names of the folder variables, checked under SpecNames.             *)
(***************************************************************************)
\* The name upper-cased, with each '-' replaced by '_'.
UpperSnake(name) ==
    [i \in 1..Len(name) |-> IF name[i] = "-" THEN "_" ELSE UpperChar(name[i])]

\* The positions of `text` at which `word` begins.
Occurrences(text, word) ==
    {k \in 1..(Len(text) - Len(word) + 1) : SubSeq(text, k, k + Len(word) - 1) = word}

\* `text` without the occurrences of `word`, taken from the left.
RECURSIVE Without(_, _)
Without(text, word) ==
    IF Occurrences(text, word) = {} THEN text
    ELSE LET k == CHOOSE i \in Occurrences(text, word) :
                     \A j \in Occurrences(text, word) : i <= j
         IN  SubSeq(text, 1, k - 1) \o Without(SubSeq(text, k + Len(word), Len(text)), word)

NamedAfter(N) ==
    FolderVariableNames(base_env_var_name) =
        [install |-> ARIEO_PACKAGE_ \o N \o INSTALL_FOLDER_,
         source |-> ARIEO_PACKAGE_ \o N \o SOURCE_FOLDER_,
         build |-> ARIEO_PACKAGE_ \o N \o BUILD_FOLDER_]

\* C28 as stated: the folder variables of a package are named
\* ARIEO_PACKAGE_<N>_INSTALL_FOLDER, ARIEO_PACKAGE_<N>_SOURCE_FOLDER and
\* ARIEO_PACKAGE_<N>_BUILD_FOLDER, where <N> is exactly the name upper-cased
\* with each '-' replaced by '_'.
C28_UpperSnakeName ==
    name_pc = "done" => NamedAfter(UpperSnake(pkg_name_chars))

\* C28, amended: <N> is the repository name upper-cased with each '-'
\* replaced by '_', then without every occurrence of ARIEOENGINE_ and then
\* without every occurrence of ARIEO_.
C28_UpperSnakeNameWithoutArieo ==
    name_pc = "done" =>
        NamedAfter(Without(Without(UpperSnake(pkg_name_chars), ARIEOENGINE_), ARIEO_))

\* The name of repository Arieo-x has been generated: ARIEO_PACKAGE_X.
C28_Witness ==
    /\ name_pc = "done"
    /\ pkg_name_chars = <<"A", "r", "i", "e", "o", "-", "x">>
    /\ base_env_var_name = ARIEO_PACKAGE_ \o <<"X">>

(***************************************************************************)
(* The two syntaxes of a multi-valued override, checked under SpecArgs.    *)
(***************************************************************************)
\* The entry that both syntaxes are to declare for v1..vn.
MultiValuedEntry(var_name, values) ==
    [name |-> var_name, is_list |-> TRUE,
     values |-> [i \in 1..Len(values) |-> Strip(values[i])]]

\* The names of the arguments, each at its first occurrence.
NamesInOrder(arguments) ==
    AppendMissing(<<>>, [i \in 1..Len(arguments) |-> arguments[i].name])

\* The texts between the commas of `text`.
Pieces(text) ==
    LET commas == {k \in 1..Len(text) : text[k] = ","}
        n == Cardinality(commas) + 1
        CommaAt(i) == IF i = 0 THEN 0
                      ELSE IF i = n THEN Len(text) + 1
                      ELSE CHOOSE k \in commas : Cardinality({c \in commas : c < k}) = i - 1
    IN  [i \in 1..n |-> SubSeq(text, CommaAt(i - 1) + 1, CommaAt(i) - 1)]

\* The list v1..vn that a command line of the model writes for NAME: the
\* values of its arguments in the repetition syntax, the texts between the
\* brackets and commas of its one argument in the other.
WrittenValues(arguments) ==
    LET named == SelectSeq(arguments, LAMBDA a : a.name = "NAME")
    IN  IF Len(named) > 1
        THEN [i \in 1..Len(named) |-> named[i].value]
        ELSE Pieces(SubSeq(named[1].value, 2, Len(named[1].value) - 1))

ReadyNodes == {n \in Keys(packages_data) : in_degree[n] = 0 /\ n \notin Range(result)}

\* The position of a package in the manifest.
DeclaredAt(n) == CHOOSE i \in 1..Len(packages_data) : packages_data[i].key = n

\* C32 as stated: at every step of topological_sort the node removed and
\* appended to the order is, among the nodes whose in-degree is zero and
\* that are not yet in the order, the one declared earliest in the manifest.
C32_EarliestDeclaredFirst ==
    [][(init_pc = "kahn" /\ result' # result) =>
          /\ result'[Len(result')] \in ReadyNodes
          /\ \A n \in ReadyNodes : DeclaredAt(result'[Len(result')]) <= DeclaredAt(n)]_vars

(***************************************************************************)
(* References to unknown packages, checked under SpecResolve.              *)
(***************************************************************************)
\* Two different dependents declare the known package d with different tags.
KnownTagConflict(pd, d) ==
    /\ d \in Keys(pd)
    /\ \E p, q \in Keys(pd) :
          /\ p # q
          /\ \E i \in 1..Len(DepPackages(Info(pd, p))), j \in 1..Len(DepPackages(Info(pd, q))) :
                /\ DepName(DepPackages(Info(pd, p))[i].git_url) = d
                /\ DepName(DepPackages(Info(pd, q))[j].git_url) = d
                /\ DepPackages(Info(pd, p))[i].tag # DepPackages(Info(pd, q))[j].tag

\* C33 as stated: conflict detection only considers references whose
\* canonical name is a known package, so resolution fails with a conflict
\* only when two dependents request different tags of a known package; and
\* the ordering graph has an edge for the references to known packages only.
C33_UnknownReferencesIgnored ==
    /\ init_error.kind = "conflict" =>
          \E d \in Keys(packages_data) : KnownTagConflict(packages_data, d)
    /\ init_pc = "kahn" =>
          \A d \in DOMAIN graph :
              /\ d \in Keys(packages_data)
              /\ \A k \in Keys(packages_data) :
                    CountRefs(DepPackages(Info(packages_data, k)), d)
                        = Cardinality({i \in 1..Len(graph[d]) : graph[d][i] = k})

(***************************************************************************)
(* Tokens with a common prefix, checked under SpecExpand.                  *)
(***************************************************************************)
\* C34 as stated: when the environment defines FOO and the longer FOOBAR,
\* in whatever order, every reference to FOOBAR in one of the three forms is
\* executed as the value of FOOBAR and every reference to FOO as the value
\* of FOO, and a value put into the command is not expanded again.
C34_LongestTokenFirst ==
    (expand_pc = "run" /\ Defined(FOO) /\ Defined(FOOBAR)) =>
        expanded_command = Substituted(build_command)

(***************************************************************************)
(* The package filter on resolve files as found, checked under SpecFiles.  *)
(***************************************************************************)
\* C35 as stated: for a resolve file that loads and a non-empty filter whose
\* names are all packages of the plan, every executed command is a command
\* of a package of the filtered set (the filter and, when dependencies are
\* included, its closure under the dependencies field); when no name of the
\* filtered set is in install_order, no command runs.
C35_NothingOutsideTheFilter ==
    \A i \in 1..Len(executed) :
        (package_filter # {} /\ package_filter \subseteq PlanKeys) =>
            executed[i].package \in
                (IF include_dependencies THEN LeastClosedSet(package_filter) ELSE package_filter)

(***************************************************************************)
(* Requested and fetched tags, checked under SpecResolve.                  *)
(***************************************************************************)
\* C36 as stated: in the plan of a resolution that succeeded, every
\* dependency reference to a package of the plan requests the tag at which
\* that package was fetched and recorded.
C36_RequestedTagIsFetchedTag ==
    (init_pc = "done" /\ resolve_file.exists) =>
        \A i \in 1..Len(resolve_file.packages) :
            \A j \in 1..Len(resolve_file.packages[i].dependencies) :
                LET dep == resolve_file.packages[i].dependencies[j]
                IN  dep.name \in PlanKeys => dep.tag = PlanEntry(dep.name).tag

(***************************************************************************)
(* The names in the dependencies lists of the plan, checked under SpecRun. *)
(***************************************************************************)
\* C37 as stated: in every emitted plan, an entry of a dependencies list
\* that refers to a package of the plan (by its git_url) carries the name
\* under which that package is keyed in the packages map, so the closure
\* over the dependencies field finds every dependency that is in the plan.
C37_DependencyNamesAreKeys ==
    resolve_file.exists =>
        \A i \in 1..Len(resolve_file.packages) :
            \A j \in 1..Len(resolve_file.packages[i].dependencies) :
                \A k \in 1..Len(resolve_file.packages) :
                    resolve_file.packages[k].git_url
                            = resolve_file.packages[i].dependencies[j].git_url
                        => resolve_file.packages[i].dependencies[j].name
                               = resolve_file.packages[k].name

(***************************************************************************)
(* The environment of the install commands, checked under SpecRun.         *)
(***************************************************************************)
\* The environment that the plan, the package and the combination of the
\* i-th executed command give: what setup_environment returns, over the
\* inherited environment.
ComposedEnvOf(i) ==
    LET info == DictGet(resolve_file.packages, executed[i].package)
        public_map == PublicEnvVarsMap(resolve_file, PlannedCombinations[executed[i].combo])
    IN  MapUpdate(os_environ,
                  SetupEnvironment(os_environ, info.source_folder, info.build_folder,
                                   info.install_folder, PackageEnvVarsMap(public_map, info)))

\* C38 as stated: the environment of an install command is fixed by the
\* plan, the package and the combination: it is the same in a run of stage
\* install and in a run of stage build_and_install, whether or not the
\* package has build commands.
C38_InstallEnvironmentFixed ==
    \A i \in 1..Len(executed) :
        executed[i].stage = "install" => executed[i].env = ComposedEnvOf(i)

\* The same for the runs of stage install alone.
C38_InstallStageAlone ==
    stage = "install" => C38_InstallEnvironmentFixed

(***************************************************************************)
(* The public variable names of a plan, checked under SpecPlanNames.       *)
(***************************************************************************)
\* C39 as stated: two packages with different names in one plan never get
\* the same public variable name ARIEO_PACKAGE_<N>_INSTALL_FOLDER.
C39_PublicNamesDiffer ==
    \A i, j \in 1..Len(public_names) : i # j => public_names[i] # public_names[j]

(***************************************************************************)
(* The resolve file of an earlier run, checked under SpecRerun.            *)
(***************************************************************************)
\* Two dependents reference d, each with one tag only, and the tags differ.
SureTagConflict(pd) ==
    \E p, q \in Keys(pd), d \in Repos, t, u \in Tags :
        /\ p # q /\ t # u
        /\ \E i \in 1..Len(DepPackages(Info(pd, p))) :
              DepName(DepPackages(Info(pd, p))[i].git_url) = d
        /\ \E j \in 1..Len(DepPackages(Info(pd, q))) :
              DepName(DepPackages(Info(pd, q))[j].git_url) = d
        /\ \A i \in 1..Len(DepPackages(Info(pd, p))) :
              DepName(DepPackages(Info(pd, p))[i].git_url) = d
                  => DepPackages(Info(pd, p))[i].tag = t
        /\ \A j \in 1..Len(DepPackages(Info(pd, q))) :
              DepName(DepPackages(Info(pd, q))[j].git_url) = d
                  => DepPackages(Info(pd, q))[j].tag = u

\* C40: when the packages have a dependency conflict or a cycle, and when
\* the resolution has failed with the conflict or the cycle error, the
\* resolve file that was at the target path is exactly as it was.
C40_FailureLeavesTheFile ==
    /\ init_error.kind \in {"conflict", "cycle"} => resolve_file = StaleFile
    /\ (SureTagConflict(packages_data) \/ HasCycle(packages_data)) => resolve_file = StaleFile

\* A resolution that found a cycle and no conflict has ended with the cycle
\* error, the earlier resolve file in place.
C40_Witness ==
    /\ init_pc = "exit"
    /\ init_error.kind = "cycle"
    /\ HasCycle(packages_data)
    /\ resolve_file = StaleFile

====
